---- MODULE Spec2Model ----
(***************************************************************************)
(* Verification model of the synchronization engine of the Employee        *)
(* Management repository:                                                  *)
(*   - the unified sync orchestrator   src/app/api/sync/all/route.ts       *)
(*   - the Directory Sync task         src/app/api/sync/entra-id/route.ts  *)
(*   - the Device Sync task            src/app/api/sync/ninjaone/route.ts  *)
(*   - the status reporter             src/app/api/sync/status/[id]/route.ts *)
(* The store (Supabase/Postgres) is modelled by the tables the tasks read  *)
(* and write: sync_logs, devices, device_assignments_history.              *)
(***************************************************************************)
EXTENDS Integers, Sequences, FiniteSets, TLC

(***************************************************************************)
(* PART 1.  The sync_logs table and the orchestrator (sync/all/route.ts).  *)
(* The two endpoints the orchestrator calls are seen here through what the *)
(* orchestrator can observe of them: their sync_logs row and their HTTP    *)
(* response.                                                               *)
(***************************************************************************)

VARIABLES
  sync_logs,          \* table sync_logs: sequence of rows, id = index, started_at order = index order
  pc,                 \* position of the orchestrator's async sync task
  syncId,             \* id of the orchestrator's own row (0: none)
  results,            \* results.azure / results.ninjaone              (all/route.ts:54)
  azureResponse,      \* the Response of the Directory Sync fetch, or none (all/route.ts:85)
  azureCompletedInDB, \* all/route.ts:87
  backgroundChecker,  \* TRUE while the setInterval poll is armed       (all/route.ts:86)
  waitAttempt,        \* loop counter of the fallback polling loops
  updateData,         \* the close payload built at all/route.ts:399
  activeSyncs,        \* module-level Map activeSyncs                   (all/route.ts:9)
  az,                 \* the Directory Sync invocation made by this run
  nj,                 \* the Device Sync invocation made by this run
  other,              \* a Directory Sync triggered independently of this run
  writeFault,         \* history: some close write of the orchestrator was not applied by the store
  closeWrites,        \* history: number of writes carrying completed_at the orchestrator has issued
  closeDoubt,         \* history: the close is in doubt (see Doubt) and no update was issued since
  thrown,             \* message of the error caught at all/route.ts:613
  lastStatus          \* the last report getStatus returned for syncId

orchVars == <<sync_logs, pc, syncId, results, azureResponse, azureCompletedInDB,
              backgroundChecker, waitAttempt, updateData, activeSyncs, az, nj,
              other, writeFault, closeWrites, closeDoubt, thrown, lastStatus>>

\* The tables the two sync tasks maintain, and the state of a task run (PART 2).
VARIABLES
  devices,             \* table devices: set of rows
  history,             \* table device_assignments_history: sequence of entries, oldest first
  nextDeviceId,        \* ids handed out by the devices table so far
  machine,             \* what the two upstream systems report about the machines (fixed)
  run,                 \* the task run in progress: "idle", "dir" (Directory Sync), "dev" (Device Sync)
  runLog,              \* the runs started so far, in order
  upstream,            \* Directory Sync: the registrations the directory reports in this run
  lastUpstream,        \* history: upstream of the Directory Sync run that ended last
  fetchFailed,         \* Directory Sync: the people whose devices this run did not obtain
  dpc,                 \* Directory Sync: position in the route
  userIdx,             \* Directory Sync: index of the user loop        (entra-id/route.ts:51)
  relationships,       \* Directory Sync: deviceUserRelationships       (entra-id/route.ts:44)
  allAzureDevices,     \* Directory Sync: the rows read at              (entra-id/route.ts:378)
  unregisteredDevices, \* Directory Sync: the rows filtered at          (entra-id/route.ts:384)
  rec,                 \* Directory Sync: locals of one reconciliation iteration (entra-id/route.ts:414)
  workers,             \* Device Sync: the parallel workers of the batch (ninjaone/route.ts:101)
  ninjaDevices         \* Device Sync: the agents listed in the last run (ninjaone/route.ts:82)

storeVars == <<devices, history, nextDeviceId, machine, run, runLog, upstream, lastUpstream,
               fetchFailed, dpc,
               userIdx, relationships, allAzureDevices, unregisteredDevices, rec, workers,
               ninjaDevices>>

\* The employees table and the counters of a task run (Part 3).
VARIABLES
  employees,           \* the employees table, one row per entra_id
  cpc,                 \* the task run in progress: "idle", "users" (Directory Sync), "batch" (Device Sync)
  fetches,             \* number of task runs started; the clock of Part 3
  azureUsers,          \* Directory Sync: the people fetched in this run   (entra-id/route.ts:40)
  cIdx,                \* Directory Sync: index of the user loop           (entra-id/route.ts:51)
  ninjaBatch,          \* Device Sync: the devices of the batch            (ninjaone/route.ts:96)
  batchResults,        \* Device Sync: results of the workers              (ninjaone/route.ts:101)
  recordsSynced,       \* the counter of the run                           (route.ts:34)
  recordsFailed,       \* the counter of the run                           (route.ts:35)
  errors,              \* the error list of the run                        (route.ts:36)
  processed,           \* history: what happened to each entity of the run
  everFetched,         \* history: the external ids fetched in any run
  employeeFault,       \* history: the store refused or lost a call on employees
  softwareSyncs,       \* Device Sync: the software follow-ups not settled yet (ninjaone/route.ts:516)
  ninjaLog,            \* Device Sync: what the last run wrote to its row      (ninjaone/route.ts:603-613)
  lastSoftware,        \* history: the follow-up settled last, and how
  taskLog              \* the sync_logs row of the task run started last (route.ts:24-32)

countVars == <<employees, cpc, fetches, azureUsers, cIdx, ninjaBatch, batchResults,
               recordsSynced, recordsFailed, errors, processed, everFetched, employeeFault,
               softwareSyncs, ninjaLog, lastSoftware, taskLog>>

\* Upserts of one device in flight at the same time (Part 4).
VARIABLES
  upsertDevices,       \* the devices table: rows with their two external ids
  upserts,             \* the upserts in flight: source, external id, position, outcome
  upsertNextId         \* ids given by the table

upsertVars == <<upsertDevices, upserts, upsertNextId>>

\* The registrations of one person and their deduplication (Part 5).
VARIABLES
  azureDevices,        \* the registrations getUserDevices returned      (entra-id/route.ts:122)
  dedupPc,             \* position: "idle", "each" (the forEach), "done"
  dedupIdx,            \* index of the forEach                            (entra-id/route.ts:144)
  deviceMapBySerial,   \* the Map, its entries in insertion order         (entra-id/route.ts:142)
  uniqueDevices,       \* Array.from(deviceMapBySerial.values())          (entra-id/route.ts:177)
  extractName,         \* the display name extractSerialNumber is called with (entra-id/route.ts:145)
  extractResult,       \* what the call returned
  extractPc            \* "idle", "call" (called, not returned), "returned"

dedupVars == <<azureDevices, dedupPc, dedupIdx, deviceMapBySerial, uniqueDevices,
               extractName, extractResult, extractPc>>

\* Writers of one device working at the same time (Part 6).
VARIABLES
  ixEmployee,          \* devices.employee_id of the device
  ixHistory,           \* the entries of device_assignments_history of the device
  ixProcs              \* the writers: two reconciliations and a worker of Device Sync

ixVars == <<ixEmployee, ixHistory, ixProcs>>

\* ---- bounds of the model -------------------------------------------------
MaxSynced == 1        \* a stage reports 0..MaxSynced records synced
MaxFailed == 1        \* a stage reports 0..MaxFailed records failed
WaitLimit60 == 2      \* stands for the 60 iterations of the first fallback loop
WaitLimit120 == 2     \* stands for the 120 iterations of the second fallback loop

\* ---- values -------------------------------------------------------------
NoStamp == "null"                      \* completed_at IS NULL
NoMsg == <<>>                          \* error_message null (or the empty string: both falsy)

\* A sync_logs row as the insert at the top of each route creates it.
NewLog(type) ==
  [sync_type |-> type, status |-> "success", records_synced |-> 0,
   records_failed |-> 0, error_message |-> NoMsg, completed_at |-> NoStamp]

\* errors.join('; '): the messages concatenated.
RECURSIVE Join(_)
Join(errs) == IF errs = <<>> THEN <<>> ELSE Head(errs) \o Join(Tail(errs))

EmptyResult == [recordsSynced |-> 0, recordsFailed |-> 0, errors |-> <<>>]

NoResponse == [present |-> FALSE, ok |-> FALSE, body |-> EmptyResult]

\* .eq('sync_type', t).order('started_at', desc).limit(1): id of the newest row of a type, 0 if none.
LatestOfType(logs, type) ==
  LET ids == {i \in 1..Len(logs) : logs[i].sync_type = type}
  IN IF ids = {} THEN 0 ELSE CHOOSE i \in ids : \A j \in ids : j <= i

\* The result the orchestrator derives from a polled sync_logs row.
ResultFromLog(log) ==
  [recordsSynced |-> log.records_synced,
   recordsFailed |-> log.records_failed,
   errors |-> IF log.error_message # NoMsg THEN <<log.error_message>> ELSE <<>>]

\* Rows left in the table by earlier runs.
OldAzureOk == [NewLog("entra_id") EXCEPT !.records_synced = 1, !.completed_at = "old"]
OldAzureFailed ==
  [NewLog("entra_id") EXCEPT !.status = "failed", !.error_message = <<"fetch">>,
                             !.completed_at = "old"]
OldNinjaOk == [NewLog("ninjaone") EXCEPT !.records_synced = 1, !.completed_at = "old"]

InitialLogs == {<<>>, <<OldAzureOk>>, <<OldAzureFailed>>, <<OldNinjaOk, OldAzureOk>>}

(***************************************************************************)
(* The two endpoints as the orchestrator observes them.                    *)
(***************************************************************************)
\* Positions of the orchestrator's task in which it still waits for, or reads, what the
\* endpoints produce. The endpoint requests are followed while the task is in one of them;
\* once it has built its close payload (or thrown), nothing reads their rows or responses.
StagePositions == {"azure_fetch", "race", "poll60", "azure_handle", "poll120", "final_verify",
                   "ninja_fetch", "ninja_wait", "ninja_catch", "compute"}

\* reached and closeApplied are history: whether the store applied the update that closes
\* the row of the task, and the counters the task had when it issued that update.
IdleCall == [st |-> "idle", logId |-> 0, resp |-> "none", body |-> EmptyResult, error |-> NoMsg,
             reached |-> [recordsSynced |-> 0, recordsFailed |-> 0], closeApplied |-> FALSE]

\* One error message per failed entity (errors.push in the per-entity catch).
ErrorList(failed, what) == [i \in 1..failed |-> <<what>>]

\* update(fields).eq('id', id): the row with the columns of `fields` overwritten.
ApplyUpdate(logs, id, fields) ==
  [logs EXCEPT ![id] = [c \in DOMAIN @ |-> IF c \in DOMAIN fields THEN fields[c] ELSE @[c]]]

\* A variant that closes every finished batch as success (used to test C39).
TaskCloseOkAlwaysSuccess(synced, failed, what, stamp) ==
  [status |-> "success",
   records_synced |-> synced, records_failed |-> failed,
   error_message |-> Join(ErrorList(failed, what)),
   completed_at |-> stamp]

\* The row a task writes when its batch finished (entra-id/route.ts:567, ninjaone/route.ts:605).
TaskCloseOk(synced, failed, what, stamp) ==
  [status |-> IF failed > 0 THEN "partial" ELSE "success",
   records_synced |-> synced, records_failed |-> failed,
   error_message |-> Join(ErrorList(failed, what)),
   completed_at |-> stamp]

\* A variant of the catch block that leaves the status of the row (used to test C32).
TaskCloseFailedAsCreated(synced, failed, msg, stamp) ==
  [records_synced |-> synced, records_failed |-> failed,
   error_message |-> msg, completed_at |-> stamp]

\* The row a task writes from its catch block (entra-id/route.ts:590, ninjaone/route.ts:627).
TaskCloseFailed(synced, failed, msg, stamp) ==
  [status |-> "failed", records_synced |-> synced, records_failed |-> failed,
   error_message |-> msg, completed_at |-> stamp]

\* A task route from the arrival of the request to the insert of its sync_logs row
\* (entra-id/route.ts:20-36, ninjaone/route.ts:21-37).
\* insertOk = FALSE: the insert returned no row (syncLog is null, the code goes on).
LogsStarted(logs, type, insertOk) == IF insertOk THEN Append(logs, NewLog(type)) ELSE logs

CallStarted(call, logs, insertOk) ==
  [call EXCEPT !.st = "running", !.logId = IF insertOk THEN Len(logs) + 1 ELSE 0]

\* A task route from the end of its batch (or its fatal exception) to its response.
\* The update's error is never inspected: closeOk = FALSE leaves the row as it was.
\* With syncLog null, syncLog!.id raises in the close and again in the catch: a 500.
LogsFinished(logs, call, synced, failed, fatal, closeOk, what, okStamp, errStamp) ==
  IF call.logId = 0 \/ ~closeOk THEN logs
  ELSE IF fatal
    THEN ApplyUpdate(logs, call.logId, TaskCloseFailed(synced, failed, <<"fatal">>, errStamp))
    ELSE ApplyUpdate(logs, call.logId, TaskCloseOk(synced, failed, what, okStamp))

CallFinished(call, synced, failed, fatal, closeOk, what) ==
  LET ended == [call EXCEPT !.st = "returned",
                            !.reached = IF closeOk /\ call.logId # 0
                                          THEN [recordsSynced |-> synced,
                                                recordsFailed |-> failed]
                                          ELSE call.reached,
                            !.closeApplied = (closeOk /\ call.logId # 0)]
  IN IF call.logId = 0
       THEN [ended EXCEPT !.resp = "err", !.error = <<"TypeError">>]
     ELSE IF fatal
       THEN [ended EXCEPT !.resp = "err", !.error = <<"fatal">>]
       ELSE [ended EXCEPT !.resp = "ok",
               !.body = [recordsSynced |-> synced, recordsFailed |-> failed,
                         errors |-> ErrorList(failed, what)]]

\* The Directory Sync endpoint called by this run.
AzStart ==
  /\ pc \in StagePositions
  /\ az.st = "invoked"
  /\ \E insertOk \in BOOLEAN :
       /\ sync_logs' = LogsStarted(sync_logs, "entra_id", insertOk)
       /\ az' = CallStarted(az, sync_logs, insertOk)
  /\ UNCHANGED <<pc, syncId, results, azureResponse, azureCompletedInDB, backgroundChecker,
                 waitAttempt, updateData, activeSyncs, nj, other, writeFault, closeWrites, closeDoubt,
                 thrown, lastStatus>>
  /\ UNCHANGED <<storeVars, countVars, upsertVars, dedupVars, ixVars>>

AzFinish ==
  /\ pc \in StagePositions
  /\ az.st = "running"
  /\ \E synced \in 0..MaxSynced, failed \in 0..MaxFailed, fatal \in BOOLEAN, closeOk \in BOOLEAN :
       /\ sync_logs' = LogsFinished(sync_logs, az, synced, failed, fatal, closeOk,
                                    "user", "L574", "L597")
       /\ az' = CallFinished(az, synced, failed, fatal, closeOk, "user")
  /\ UNCHANGED <<pc, syncId, results, azureResponse, azureCompletedInDB, backgroundChecker,
                 waitAttempt, updateData, activeSyncs, nj, other, writeFault, closeWrites, closeDoubt,
                 thrown, lastStatus>>
  /\ UNCHANGED <<storeVars, countVars, upsertVars, dedupVars, ixVars>>

\* The Device Sync endpoint called by this run.
NjStart ==
  /\ pc \in StagePositions
  /\ nj.st = "invoked"
  /\ \E insertOk \in BOOLEAN :
       /\ sync_logs' = LogsStarted(sync_logs, "ninjaone", insertOk)
       /\ nj' = CallStarted(nj, sync_logs, insertOk)
  /\ UNCHANGED <<pc, syncId, results, azureResponse, azureCompletedInDB, backgroundChecker,
                 waitAttempt, updateData, activeSyncs, az, other, writeFault, closeWrites, closeDoubt,
                 thrown, lastStatus>>
  /\ UNCHANGED <<storeVars, countVars, upsertVars, dedupVars, ixVars>>

NjFinish ==
  /\ pc \in StagePositions
  /\ nj.st = "running"
  /\ \E synced \in 0..MaxSynced, failed \in 0..MaxFailed, fatal \in BOOLEAN, closeOk \in BOOLEAN :
       /\ sync_logs' = LogsFinished(sync_logs, nj, synced, failed, fatal, closeOk,
                                    "device", "L612", "L634")
       /\ nj' = CallFinished(nj, synced, failed, fatal, closeOk, "device")
  /\ UNCHANGED <<pc, syncId, results, azureResponse, azureCompletedInDB, backgroundChecker,
                 waitAttempt, updateData, activeSyncs, az, other, writeFault, closeWrites, closeDoubt,
                 thrown, lastStatus>>
  /\ UNCHANGED <<storeVars, countVars, upsertVars, dedupVars, ixVars>>

\* The positions in which the orchestrator reads the newest entra_id row.
WaitPositions == {"race", "poll60", "poll120"}

\* A Directory Sync triggered independently (cron, the settings page) while this run waits
\* for its own.
OtherStart ==
  /\ other.st = "idle"
  /\ pc \in WaitPositions
  /\ sync_logs' = LogsStarted(sync_logs, "entra_id", TRUE)
  /\ other' = CallStarted(other, sync_logs, TRUE)
  /\ UNCHANGED <<pc, syncId, results, azureResponse, azureCompletedInDB, backgroundChecker,
                 waitAttempt, updateData, activeSyncs, az, nj, writeFault, closeWrites, closeDoubt,
                 thrown, lastStatus>>
  /\ UNCHANGED <<storeVars, countVars, upsertVars, dedupVars, ixVars>>

OtherFinish ==
  /\ pc \in WaitPositions
  /\ other.st = "running"
  /\ \E fatal \in BOOLEAN :
       /\ sync_logs' = LogsFinished(sync_logs, other, MaxSynced, 0, fatal, TRUE,
                                    "user", "L574", "L597")
       /\ other' = CallFinished(other, MaxSynced, 0, fatal, TRUE, "user")
  /\ UNCHANGED <<pc, syncId, results, azureResponse, azureCompletedInDB, backgroundChecker,
                 waitAttempt, updateData, activeSyncs, az, nj, writeFault, closeWrites, closeDoubt,
                 thrown, lastStatus>>
  /\ UNCHANGED <<storeVars, countVars, upsertVars, dedupVars, ixVars>>

(***************************************************************************)
(* The orchestrator: POST of sync/all/route.ts.                            *)
(***************************************************************************)
NoUpdate == [status |-> "none", records_synced |-> 0, records_failed |-> 0,
             error_message |-> NoMsg, completed_at |-> NoStamp]

NoReport == [asked |-> FALSE, isComplete |-> FALSE, status |-> "none",
             recordsSynced |-> 0, recordsFailed |-> 0]

\* The throw statements of the Azure step and the outer catch they end in.
Throw(msg) == /\ pc' = "fail_close" /\ thrown' = msg

\* all/route.ts:22-57, 649-663: create the run's row, start the async task, return the id.
\* A failed insert returns 500 and starts nothing.
Start ==
  /\ pc = "idle"
  /\ \E insertOk \in BOOLEAN :
       IF insertOk
         THEN /\ sync_logs' = Append(sync_logs, NewLog("all"))
              /\ syncId' = Len(sync_logs) + 1
              /\ activeSyncs' = activeSyncs \cup {Len(sync_logs) + 1}
              /\ pc' = "azure_fetch"
         ELSE /\ pc' = "rejected"
              /\ UNCHANGED <<sync_logs, syncId, activeSyncs>>
  /\ UNCHANGED <<results, azureResponse, azureCompletedInDB, backgroundChecker, waitAttempt,
                 updateData, az, nj, other, writeFault, closeWrites, closeDoubt, thrown, lastStatus>>
  /\ UNCHANGED <<storeVars, countVars, upsertVars, dedupVars, ixVars>>

\* all/route.ts:93-146: start the fetch of /api/sync/entra-id and arm the background checker.
AzureFetch ==
  /\ pc = "azure_fetch"
  /\ az' = [az EXCEPT !.st = "invoked"]
  /\ backgroundChecker' = TRUE
  /\ pc' = "race"
  /\ UNCHANGED <<sync_logs, syncId, results, azureResponse, azureCompletedInDB, waitAttempt,
                 updateData, activeSyncs, nj, other, writeFault, closeWrites, closeDoubt, thrown,
                 lastStatus>>
  /\ UNCHANGED <<storeVars, countVars, upsertVars, dedupVars, ixVars>>

\* all/route.ts:103-146, 153, 161-163: a tick of the background checker that finds the newest
\* entra_id row completed; it fills results.azure from that row and wins the race ('db').
\* A tick that finds no completed row (or a read error) changes nothing.
BackgroundCheck ==
  /\ pc = "race"
  /\ backgroundChecker
  /\ LET id == LatestOfType(sync_logs, "entra_id") IN
       /\ id # 0
       /\ sync_logs[id].completed_at # NoStamp
       /\ ~azureResponse.present
       /\ ~azureCompletedInDB
       /\ azureCompletedInDB' = TRUE
       /\ results' = [results EXCEPT !.azure = ResultFromLog(sync_logs[id])]
  /\ backgroundChecker' = FALSE
  /\ pc' = "azure_handle"
  /\ UNCHANGED <<sync_logs, syncId, azureResponse, waitAttempt, updateData, activeSyncs,
                 az, nj, other, writeFault, closeWrites, closeDoubt, thrown, lastStatus>>
  /\ UNCHANGED <<storeVars, countVars, upsertVars, dedupVars, ixVars>>

\* all/route.ts:150-160: the fetch resolves first.
FetchResolve ==
  /\ pc = "race"
  /\ az.resp # "none"
  /\ azureResponse' = [present |-> TRUE, ok |-> az.resp = "ok", body |-> az.body]
  /\ backgroundChecker' = FALSE
  /\ pc' = "azure_handle"
  /\ UNCHANGED <<sync_logs, syncId, results, azureCompletedInDB, waitAttempt, updateData,
                 activeSyncs, az, nj, other, writeFault, closeWrites, closeDoubt, thrown, lastStatus>>
  /\ UNCHANGED <<storeVars, countVars, upsertVars, dedupVars, ixVars>>

\* all/route.ts:75-77, 152, 164-191: the race ends without a response: the 6 minute timer
\* fires first, or the fetch itself rejects. azureCompletedInDB is false here, so the inner
\* catch starts the first fallback loop.
AzureTimeout ==
  /\ pc = "race"
  /\ backgroundChecker' = FALSE
  /\ waitAttempt' = 0
  /\ pc' = "poll60"
  /\ UNCHANGED <<sync_logs, syncId, results, azureResponse, azureCompletedInDB, updateData,
                 activeSyncs, az, nj, other, writeFault, closeWrites, closeDoubt, thrown, lastStatus>>
  /\ UNCHANGED <<storeVars, countVars, upsertVars, dedupVars, ixVars>>

\* all/route.ts:194-222: one iteration of the first fallback loop.
Poll60 ==
  /\ pc = "poll60"
  /\ waitAttempt < WaitLimit60
  /\ LET id == LatestOfType(sync_logs, "entra_id") IN
       IF id # 0 /\ sync_logs[id].completed_at # NoStamp
         THEN /\ results' = [results EXCEPT !.azure = ResultFromLog(sync_logs[id])]
              /\ pc' = "azure_handle"
              /\ UNCHANGED waitAttempt
         ELSE /\ waitAttempt' = waitAttempt + 1
              /\ UNCHANGED <<results, pc>>
  /\ UNCHANGED <<sync_logs, syncId, azureResponse, azureCompletedInDB, backgroundChecker,
                 updateData, activeSyncs, az, nj, other, writeFault, closeWrites, closeDoubt, thrown,
                 lastStatus>>
  /\ UNCHANGED <<storeVars, countVars, upsertVars, dedupVars, ixVars>>

\* all/route.ts:224-228, 257-263: the first loop ran out; the throw lands in the catch that
\* starts the second fallback loop.
Poll60Exhausted ==
  /\ pc = "poll60"
  /\ waitAttempt >= WaitLimit60
  /\ waitAttempt' = 0
  /\ pc' = "poll120"
  /\ UNCHANGED <<sync_logs, syncId, results, azureResponse, azureCompletedInDB,
                 backgroundChecker, updateData, activeSyncs, az, nj, other, writeFault,
                 closeWrites, closeDoubt, thrown, lastStatus>>
  /\ UNCHANGED <<storeVars, countVars, upsertVars, dedupVars, ixVars>>

\* all/route.ts:232-254: use the response (if there is one), then require an empty error list.
AzureHandle ==
  /\ pc = "azure_handle"
  /\ LET afterResponse ==
           IF azureResponse.present /\ azureResponse.ok THEN azureResponse.body
           ELSE IF azureResponse.present
             THEN [results.azure EXCEPT !.errors = Append(@, az.error)]
             ELSE results.azure
     IN /\ results' = [results EXCEPT !.azure = afterResponse]
        /\ IF afterResponse.errors # <<>>
             THEN /\ pc' = "poll120" /\ waitAttempt' = 0
             ELSE /\ pc' = "final_verify" /\ UNCHANGED waitAttempt
  /\ UNCHANGED <<sync_logs, syncId, azureResponse, azureCompletedInDB, backgroundChecker,
                 updateData, activeSyncs, az, nj, other, writeFault, closeWrites, closeDoubt, thrown,
                 lastStatus>>
  /\ UNCHANGED <<storeVars, countVars, upsertVars, dedupVars, ixVars>>

\* all/route.ts:287: the polled row says the Directory Sync failed.
PolledFailed(log) ==
  log.status = "failed" \/ (log.error_message # NoMsg /\ log.records_synced = 0)

\* all/route.ts:265-299: one iteration of the second fallback loop.
Poll120 ==
  /\ pc = "poll120"
  /\ waitAttempt < WaitLimit120
  /\ LET id == LatestOfType(sync_logs, "entra_id") IN
       IF id # 0 /\ sync_logs[id].completed_at # NoStamp
         THEN /\ results' = [results EXCEPT !.azure = ResultFromLog(sync_logs[id])]
              /\ IF PolledFailed(sync_logs[id])
                   THEN Throw(<<"Azure sync failed">>)
                   ELSE /\ pc' = "final_verify" /\ UNCHANGED thrown
              /\ UNCHANGED waitAttempt
         ELSE /\ waitAttempt' = waitAttempt + 1
              /\ UNCHANGED <<results, pc, thrown>>
  /\ UNCHANGED <<sync_logs, syncId, azureResponse, azureCompletedInDB, backgroundChecker,
                 updateData, activeSyncs, az, nj, other, writeFault, closeWrites, closeDoubt, lastStatus>>
  /\ UNCHANGED <<storeVars, countVars, upsertVars, dedupVars, ixVars>>

\* all/route.ts:301-305: the second loop ran out.
Poll120Exhausted ==
  /\ pc = "poll120"
  /\ waitAttempt >= WaitLimit120
  /\ Throw(<<"Azure sync did not complete">>)
  /\ UNCHANGED <<sync_logs, syncId, results, azureResponse, azureCompletedInDB,
                 backgroundChecker, waitAttempt, updateData, activeSyncs, az, nj, other,
                 writeFault, closeWrites, closeDoubt, lastStatus>>
  /\ UNCHANGED <<storeVars, countVars, upsertVars, dedupVars, ixVars>>

\* A variant that accepts a result without synced records (used to test C38).
AzureSucceededWithoutRecords(azure) == azure.errors = <<>>

\* all/route.ts:309: Azure must have succeeded to proceed.
AzureSucceeded(azure) == azure.errors = <<>> /\ azure.recordsSynced # 0

\* all/route.ts:308-317: final verification of the Azure step.
FinalVerify ==
  /\ pc = "final_verify"
  /\ IF AzureSucceeded(results.azure)
       THEN /\ pc' = "ninja_fetch" /\ UNCHANGED thrown
       ELSE Throw(<<"Azure sync failed">>)
  /\ UNCHANGED <<sync_logs, syncId, results, azureResponse, azureCompletedInDB,
                 backgroundChecker, waitAttempt, updateData, activeSyncs, az, nj, other,
                 writeFault, closeWrites, closeDoubt, lastStatus>>
  /\ UNCHANGED <<storeVars, countVars, upsertVars, dedupVars, ixVars>>

\* all/route.ts:319-336: start the fetch of /api/sync/ninjaone.
NinjaFetch ==
  /\ pc = "ninja_fetch"
  /\ nj' = [nj EXCEPT !.st = "invoked"]
  /\ pc' = "ninja_wait"
  /\ UNCHANGED <<sync_logs, syncId, results, azureResponse, azureCompletedInDB,
                 backgroundChecker, waitAttempt, updateData, activeSyncs, az, other,
                 writeFault, closeWrites, closeDoubt, thrown, lastStatus>>
  /\ UNCHANGED <<storeVars, countVars, upsertVars, dedupVars, ixVars>>

\* all/route.ts:327-353: the NinjaOne response arrives.
NinjaResponse ==
  /\ pc = "ninja_wait"
  /\ nj.resp # "none"
  /\ IF nj.resp = "ok"
       THEN /\ results' = [results EXCEPT !.ninjaone = nj.body]
            /\ pc' = "compute"
       ELSE /\ results' = [results EXCEPT !.ninjaone.errors = Append(@, nj.error)]
            /\ pc' = "ninja_catch"
  /\ UNCHANGED <<sync_logs, syncId, azureResponse, azureCompletedInDB, backgroundChecker,
                 waitAttempt, updateData, activeSyncs, az, nj, other, writeFault,
                 closeWrites, closeDoubt, thrown, lastStatus>>
  /\ UNCHANGED <<storeVars, countVars, upsertVars, dedupVars, ixVars>>

\* all/route.ts:323-336: the 30 minute timer fires, or the fetch rejects.
NinjaTimeout ==
  /\ pc = "ninja_wait"
  /\ pc' = "ninja_catch"
  /\ UNCHANGED <<sync_logs, syncId, results, azureResponse, azureCompletedInDB,
                 backgroundChecker, waitAttempt, updateData, activeSyncs, az, nj, other,
                 writeFault, closeWrites, closeDoubt, thrown, lastStatus>>
  /\ UNCHANGED <<storeVars, countVars, upsertVars, dedupVars, ixVars>>

\* all/route.ts:354-378: after a failed call, look at the newest ninjaone row.
NinjaCatch ==
  /\ pc = "ninja_catch"
  /\ LET id == LatestOfType(sync_logs, "ninjaone") IN
       IF id # 0 /\ sync_logs[id].completed_at # NoStamp /\ sync_logs[id].status # "failed"
         THEN /\ results' = [results EXCEPT !.ninjaone = ResultFromLog(sync_logs[id])]
              /\ pc' = "compute"
              /\ UNCHANGED thrown
         ELSE /\ Throw(<<"NinjaOne sync failed">>)
              /\ UNCHANGED results
  /\ UNCHANGED <<sync_logs, syncId, azureResponse, azureCompletedInDB, backgroundChecker,
                 waitAttempt, updateData, activeSyncs, az, nj, other, writeFault,
                 closeWrites, closeDoubt, lastStatus>>
  /\ UNCHANGED <<storeVars, countVars, upsertVars, dedupVars, ixVars>>

\* A variant of OverallStatus that fails the run on any error (used to test C10).
OverallStatusStrict(hasErrors, totalSynced, totalFailed) ==
  IF hasErrors THEN "failed"
  ELSE IF totalFailed > 0 THEN "partial"
  ELSE "success"

\* all/route.ts:389-390: the overall status.
OverallStatus(hasErrors, totalSynced, totalFailed) ==
  IF hasErrors /\ totalSynced = 0 THEN "failed"
  ELSE IF hasErrors \/ totalFailed > 0 THEN "partial"
  ELSE "success"

\* all/route.ts:385-406: totals, status and the close payload.
BuildUpdateData(r) ==
  LET totalSynced == r.azure.recordsSynced + r.ninjaone.recordsSynced
      totalFailed == r.azure.recordsFailed + r.ninjaone.recordsFailed
      hasErrors == r.azure.errors # <<>> \/ r.ninjaone.errors # <<>>
  IN [status |-> OverallStatus(hasErrors, totalSynced, totalFailed),
      records_synced |-> totalSynced,
      records_failed |-> totalFailed,
      completed_at |-> "L404",
      error_message |-> IF hasErrors THEN Join(r.azure.errors \o r.ninjaone.errors) ELSE NoMsg]

Compute ==
  /\ pc = "compute"
  /\ updateData' = BuildUpdateData(results)
  /\ pc' = "close_before"
  /\ UNCHANGED <<sync_logs, syncId, results, azureResponse, azureCompletedInDB,
                 backgroundChecker, waitAttempt, activeSyncs, az, nj, other, writeFault,
                 closeWrites, closeDoubt, thrown, lastStatus>>
  /\ UNCHANGED <<storeVars, countVars, upsertVars, dedupVars, ixVars>>

\* An exception nobody expected (a TypeError, a rejected store call) during the stages:
\* the catch block that receives it, by the position it is raised at
\* (try blocks at all/route.ts:59, 67, 89, 321).
CatchOf(at) ==
  CASE at = "race"                                  -> "poll60"
    [] at \in {"poll60", "azure_handle"}            -> "poll120"
    [] at \in {"ninja_fetch", "ninja_wait"}         -> "ninja_catch"
    [] OTHER                                        -> "fail_close"

Unexpected ==
  /\ pc \in StagePositions
  /\ pc' = CatchOf(pc)
  /\ thrown' = IF CatchOf(pc) = "fail_close" THEN <<"unexpected">> ELSE thrown
  /\ waitAttempt' = 0
  /\ backgroundChecker' = FALSE
  /\ UNCHANGED <<sync_logs, syncId, results, azureResponse, azureCompletedInDB, updateData,
                 activeSyncs, az, nj, other, writeFault, closeWrites, closeDoubt, lastStatus>>
  /\ UNCHANGED <<storeVars, countVars, upsertVars, dedupVars, ixVars>>

(***************************************************************************)
(* Closing the run's row (all/route.ts:397-646).  Every store call has the *)
(* outcomes the code distinguishes: a write is applied ("ok"), refused     *)
(* with an error, matches no row ("nodata"), or raises; a read shows the   *)
(* row as it is ("seen"), shows it without completed_at ("unseen"),        *)
(* returns an error, or raises.                                            *)
(***************************************************************************)
Closed(logs, id) == logs[id].completed_at # NoStamp

\* Bookkeeping of one issued close write and of what the store did with it. The close is in
\* doubt when the close update raised or matched no row; any update issued later lifts it.
Issued(outcome) ==
  /\ closeWrites' = closeWrites + 1
  /\ writeFault' = (writeFault \/ outcome # "ok")
  /\ closeDoubt' = (pc = "close_update" /\ outcome \in {"nodata", "throw"})

\* all/route.ts:410-420: read the row before the update; a missing row is thrown.
CloseBefore ==
  /\ pc = "close_before"
  /\ \E r \in {"seen", "missing", "throw"} :
       pc' = IF r = "seen" THEN "close_update" ELSE "last_resort"
  /\ UNCHANGED <<sync_logs, syncId, results, azureResponse, azureCompletedInDB,
                 backgroundChecker, waitAttempt, updateData, activeSyncs, az, nj, other,
                 writeFault, closeWrites, closeDoubt, thrown, lastStatus>>
  /\ UNCHANGED <<storeVars, countVars, upsertVars, dedupVars, ixVars>>

\* all/route.ts:429-468: the close update and the branch taken on its result.
AfterCloseUpdate(outcome) ==
  CASE outcome = "ok"     -> "verify1"
    [] outcome = "error"  -> "finish"
    [] outcome = "nodata" -> "close_retry"
    [] outcome = "throw"  -> "last_resort"

CloseUpdate ==
  /\ pc = "close_update"
  /\ \E o \in {"ok", "error", "nodata", "throw"} :
       /\ sync_logs' = IF o = "ok" THEN ApplyUpdate(sync_logs, syncId, updateData) ELSE sync_logs
       /\ Issued(o)
       /\ pc' = AfterCloseUpdate(o)
  /\ UNCHANGED <<syncId, results, azureResponse, azureCompletedInDB, backgroundChecker,
                 waitAttempt, updateData, activeSyncs, az, nj, other, thrown, lastStatus>>
  /\ UNCHANGED <<storeVars, countVars, upsertVars, dedupVars, ixVars>>

\* all/route.ts:444-459: the update matched no row: one retry with completion and 'partial'.
CloseRetry ==
  /\ pc = "close_retry"
  /\ \E o \in {"ok", "error", "throw"} :
       /\ sync_logs' = IF o = "ok"
            THEN ApplyUpdate(sync_logs, syncId, [completed_at |-> "L448", status |-> "partial"])
            ELSE sync_logs
       /\ Issued(o)
       /\ pc' = IF o = "throw" THEN "last_resort" ELSE "finish"
  /\ UNCHANGED <<syncId, results, azureResponse, azureCompletedInDB, backgroundChecker,
                 waitAttempt, updateData, activeSyncs, az, nj, other, thrown, lastStatus>>
  /\ UNCHANGED <<storeVars, countVars, upsertVars, dedupVars, ixVars>>

\* What a verification read can return. A read that does not show completed_at puts the
\* close in doubt; one that shows it lifts the doubt.
ReadOutcomes(logs, id) ==
  {"unseen", "error", "throw"} \cup (IF Closed(logs, id) THEN {"seen"} ELSE {})

\* all/route.ts:469-481, 552-554: first re-read after the update.
Verify1 ==
  /\ pc = "verify1"
  /\ \E r \in ReadOutcomes(sync_logs, syncId) :
       /\ closeDoubt' = (r # "seen")
       /\ pc' = CASE r = "seen"   -> "verify2"
                  [] r = "unseen" -> "retry_verify"
                  [] r = "error"  -> "finish"
                  [] r = "throw"  -> "last_resort"
  /\ UNCHANGED <<sync_logs, syncId, results, azureResponse, azureCompletedInDB,
                 backgroundChecker, waitAttempt, updateData, activeSyncs, az, nj, other,
                 writeFault, closeWrites, thrown, lastStatus>>
  /\ UNCHANGED <<storeVars, countVars, upsertVars, dedupVars, ixVars>>

\* all/route.ts:484-495, 548-551: second re-read with a fresh client.
Verify2 ==
  /\ pc = "verify2"
  /\ \E r \in ReadOutcomes(sync_logs, syncId) :
       /\ closeDoubt' = (r # "seen")
       /\ pc' = CASE r = "seen"   -> "verify3"
                  [] r = "throw"  -> "last_resort"
                  [] OTHER        -> "finish"
  /\ UNCHANGED <<sync_logs, syncId, results, azureResponse, azureCompletedInDB,
                 backgroundChecker, waitAttempt, updateData, activeSyncs, az, nj, other,
                 writeFault, closeWrites, thrown, lastStatus>>
  /\ UNCHANGED <<storeVars, countVars, upsertVars, dedupVars, ixVars>>

\* all/route.ts:498-515: third re-read, as the status endpoint would read.
Verify3 ==
  /\ pc = "verify3"
  /\ \E r \in ReadOutcomes(sync_logs, syncId) :
       /\ closeDoubt' = (r # "seen")
       /\ pc' = CASE r = "seen"   -> "finish"
                  [] r = "throw"  -> "last_resort"
                  [] OTHER        -> "second_update"
  /\ UNCHANGED <<sync_logs, syncId, results, azureResponse, azureCompletedInDB,
                 backgroundChecker, waitAttempt, updateData, activeSyncs, az, nj, other,
                 writeFault, closeWrites, thrown, lastStatus>>
  /\ UNCHANGED <<storeVars, countVars, upsertVars, dedupVars, ixVars>>

\* all/route.ts:516-546: the same payload written again; re-read once more when it returned a row.
SecondUpdate ==
  /\ pc = "second_update"
  /\ \E o \in {"ok", "error", "nodata", "throw"} :
       /\ sync_logs' = IF o = "ok" THEN ApplyUpdate(sync_logs, syncId, updateData) ELSE sync_logs
       /\ Issued(o)
       /\ pc' = CASE o = "ok"    -> "verify4"
                  [] o = "throw" -> "last_resort"
                  [] OTHER       -> "finish"
  /\ UNCHANGED <<syncId, results, azureResponse, azureCompletedInDB, backgroundChecker,
                 waitAttempt, updateData, activeSyncs, az, nj, other, thrown, lastStatus>>
  /\ UNCHANGED <<storeVars, countVars, upsertVars, dedupVars, ixVars>>

\* all/route.ts:530-543: the re-read after the second update only logs.
Verify4 ==
  /\ pc = "verify4"
  /\ \E r \in ReadOutcomes(sync_logs, syncId) :
       /\ closeDoubt' = (r # "seen")
       /\ pc' = IF r = "throw" THEN "last_resort" ELSE "finish"
  /\ UNCHANGED <<sync_logs, syncId, results, azureResponse, azureCompletedInDB,
                 backgroundChecker, waitAttempt, updateData, activeSyncs, az, nj, other,
                 writeFault, closeWrites, thrown, lastStatus>>
  /\ UNCHANGED <<storeVars, countVars, upsertVars, dedupVars, ixVars>>

\* all/route.ts:556-569: completed_at was not visible: wait and read again.
RetryVerify ==
  /\ pc = "retry_verify"
  /\ \E r \in ReadOutcomes(sync_logs, syncId) :
       /\ closeDoubt' = (r # "seen")
       /\ pc' = CASE r = "seen"   -> "finish"
                  [] r = "throw"  -> "last_resort"
                  [] OTHER        -> "force_update"
  /\ UNCHANGED <<sync_logs, syncId, results, azureResponse, azureCompletedInDB,
                 backgroundChecker, waitAttempt, updateData, activeSyncs, az, nj, other,
                 writeFault, closeWrites, thrown, lastStatus>>
  /\ UNCHANGED <<storeVars, countVars, upsertVars, dedupVars, ixVars>>

\* all/route.ts:570-588: the forced update (no error_message column).
ForceUpdate ==
  /\ pc = "force_update"
  /\ \E o \in {"ok", "error", "throw"} :
       /\ sync_logs' = IF o = "ok"
            THEN ApplyUpdate(sync_logs, syncId,
                   [status |-> updateData.status, records_synced |-> updateData.records_synced,
                    records_failed |-> updateData.records_failed, completed_at |-> "L579"])
            ELSE sync_logs
       /\ Issued(o)
       /\ pc' = IF o = "throw" THEN "last_resort" ELSE "finish"
  /\ UNCHANGED <<syncId, results, azureResponse, azureCompletedInDB, backgroundChecker,
                 waitAttempt, updateData, activeSyncs, az, nj, other, thrown, lastStatus>>
  /\ UNCHANGED <<storeVars, countVars, upsertVars, dedupVars, ixVars>>

\* all/route.ts:591-610: anything raised in the close: completed_at alone.
LastResort ==
  /\ pc = "last_resort"
  /\ \E o \in {"ok", "error", "throw"} :
       /\ sync_logs' = IF o = "ok"
            THEN ApplyUpdate(sync_logs, syncId, [completed_at |-> "L597"])
            ELSE sync_logs
       /\ Issued(o)
  /\ pc' = "finish"
  /\ UNCHANGED <<syncId, results, azureResponse, azureCompletedInDB, backgroundChecker,
                 waitAttempt, updateData, activeSyncs, az, nj, other, thrown, lastStatus>>
  /\ UNCHANGED <<storeVars, countVars, upsertVars, dedupVars, ixVars>>

\* A variant of FailureUpdate that forgets completed_at (used to test C1).
FailureUpdateUnstamped(r, msg) ==
  [status |-> "failed",
   records_failed |-> r.azure.recordsFailed + r.ninjaone.recordsFailed,
   error_message |-> msg]

\* all/route.ts:620-629: the row written from the outer catch.
FailureUpdate(r, msg) ==
  [status |-> "failed",
   records_failed |-> r.azure.recordsFailed + r.ninjaone.recordsFailed,
   completed_at |-> "L626",
   error_message |-> IF msg # NoMsg THEN msg ELSE <<"Sync failed unexpectedly">>]

\* all/route.ts:613-641: the outer catch closes the run as failed.
FailClose ==
  /\ pc = "fail_close"
  /\ \E o \in {"ok", "error", "throw"} :
       /\ sync_logs' = IF o = "ok"
            THEN ApplyUpdate(sync_logs, syncId, FailureUpdate(results, thrown))
            ELSE sync_logs
       /\ Issued(o)
       /\ pc' = IF o = "error" THEN "fail_last_resort" ELSE "finish"
  /\ UNCHANGED <<syncId, results, azureResponse, azureCompletedInDB, backgroundChecker,
                 waitAttempt, updateData, activeSyncs, az, nj, other, thrown, lastStatus>>
  /\ UNCHANGED <<storeVars, countVars, upsertVars, dedupVars, ixVars>>

\* all/route.ts:631-638: the failure update returned an error: completed_at alone.
FailLastResort ==
  /\ pc = "fail_last_resort"
  /\ \E o \in {"ok", "error", "throw"} :
       /\ sync_logs' = IF o = "ok"
            THEN ApplyUpdate(sync_logs, syncId, [completed_at |-> "L636"])
            ELSE sync_logs
       /\ Issued(o)
  /\ pc' = "finish"
  /\ UNCHANGED <<syncId, results, azureResponse, azureCompletedInDB, backgroundChecker,
                 waitAttempt, updateData, activeSyncs, az, nj, other, thrown, lastStatus>>
  /\ UNCHANGED <<storeVars, countVars, upsertVars, dedupVars, ixVars>>

\* all/route.ts:642-646: finally.
Finish ==
  /\ pc = "finish"
  /\ activeSyncs' = activeSyncs \ {syncId}
  /\ pc' = "done"
  /\ UNCHANGED <<sync_logs, syncId, results, azureResponse, azureCompletedInDB,
                 backgroundChecker, waitAttempt, updateData, az, nj, other, writeFault,
                 closeWrites, closeDoubt, thrown, lastStatus>>
  /\ UNCHANGED <<storeVars, countVars, upsertVars, dedupVars, ixVars>>

(***************************************************************************)
(* The status reporter: GET of sync/status/[id]/route.ts.                  *)
(***************************************************************************)
\* A variant that takes a row showing status success for complete (used to test C11).
ProcessByStatus(syncLog, freshLog) ==
  [asked |-> TRUE, isComplete |-> syncLog.status = "success", status |-> syncLog.status,
   recordsSynced |-> syncLog.records_synced, recordsFailed |-> syncLog.records_failed]

\* status/[id]/route.ts:58-155. syncLog is the row the route read; freshLog is the row the
\* /api/sync/logs fallback returned (read only in the workaround branch).
ProcessSyncLog(syncLog, freshLog) ==
  LET isComplete == syncLog.completed_at # NoStamp IN
  IF syncLog.sync_type = "all" /\ ~isComplete /\ syncLog.status = "success"
       /\ freshLog.completed_at # NoStamp
    THEN [asked |-> TRUE, isComplete |-> TRUE, status |-> freshLog.status,
          recordsSynced |-> freshLog.records_synced,
          recordsFailed |-> freshLog.records_failed]
    ELSE [asked |-> TRUE, isComplete |-> isComplete, status |-> syncLog.status,
          recordsSynced |-> syncLog.records_synced,
          recordsFailed |-> syncLog.records_failed]

\* A read of row id: the row as it is, or (lagging == TRUE) as it was before its close
\* became visible to this connection.
ReadLog(logs, id, lagging) == IF lagging THEN NewLog(logs[id].sync_type) ELSE logs[id]

\* status/[id]/route.ts:4-56: a caller polls the run it started.
GetStatusReading(lag1, lag2) ==
  /\ syncId # 0
  /\ lastStatus' = ProcessSyncLog(ReadLog(sync_logs, syncId, lag1),
                                  ReadLog(sync_logs, syncId, lag2))
  /\ UNCHANGED <<sync_logs, pc, syncId, results, azureResponse, azureCompletedInDB,
                 backgroundChecker, waitAttempt, updateData, activeSyncs, az, nj, other,
                 writeFault, closeWrites, closeDoubt, thrown>>
  /\ UNCHANGED <<storeVars, countVars, upsertVars, dedupVars, ixVars>>

GetStatus == \E lag1 \in BOOLEAN, lag2 \in BOOLEAN : GetStatusReading(lag1, lag2)

(***************************************************************************)
(* PART 2.  The devices and device_assignments_history tables, the         *)
(* Directory Sync task (sync/entra-id/route.ts) and the Device Sync task   *)
(* (sync/ninjaone/route.ts).                                               *)
(***************************************************************************)

\* ---- bounds ---------------------------------------------------------------
MaxRuns == 4          \* task runs followed one after another
MaxDate == 2          \* registered dates are 1..MaxDate

\* ---- strings --------------------------------------------------------------
\* A string is the sequence of its characters. A NULL (or empty) text column is <<>>.
NoText == <<>>
Null == "null"                         \* a NULL id column

UpperChar(c) ==
  CASE c = "a" -> "A" [] c = "p" -> "P" [] c = "c" -> "C" [] c = "s" -> "S" [] OTHER -> c

LowerChar(c) ==
  CASE c = "A" -> "a" [] c = "P" -> "p" [] c = "C" -> "c" [] c = "S" -> "s" [] OTHER -> c

\* String.prototype.toUpperCase / toLowerCase
ToUpperCase(str) == [i \in 1..Len(str) |-> UpperChar(str[i])]
ToLowerCase(str) == [i \in 1..Len(str) |-> LowerChar(str[i])]

\* String.prototype.trim
RECURSIVE TrimStart(_)
TrimStart(str) ==
  IF str # <<>> /\ Head(str) = " " THEN TrimStart(Tail(str)) ELSE str

RECURSIVE TrimEnd(_)
TrimEnd(str) ==
  IF str # <<>> /\ str[Len(str)] = " " THEN TrimEnd(SubSeq(str, 1, Len(str) - 1)) ELSE str

Trim(str) == TrimEnd(TrimStart(str))

\* replace(/[^a-z0-9]/g, ''), applied to lowercased text
IsAlnum(c) == c \in {"a", "p", "c", "s", "1", "2"}
AlnumOnly(str) == SelectSeq(str, IsAlnum)

\* String.prototype.includes
Includes(str, part) ==
  \E i \in 0..(Len(str) - Len(part)) : SubSeq(str, i + 1, i + Len(part)) = part

\* Position of the first hyphen, 0 if there is none.
FirstHyphen(str) ==
  LET at == {i \in 1..Len(str) : str[i] = "-"}
  IN IF at = {} THEN 0 ELSE CHOOSE i \in at : \A j \in at : i <= j

\* parts.slice(1).join('-'): the text after the first hyphen.
AfterFirstHyphen(str) == SubSeq(str, FirstHyphen(str) + 1, Len(str))

\* A variant that takes the text after the last hyphen (used to test C31).
extractAfterLastHyphen(deviceName) ==
  LET at == {i \in 1..Len(deviceName) : deviceName[i] = "-"}
  IN IF at = {} THEN NoText
     ELSE Trim(ToUpperCase(SubSeq(deviceName, (CHOOSE i \in at : \A j \in at : i >= j) + 1,
                                  Len(deviceName))))

\* entra-id/route.ts:130-138, 207-214: extractSerialNumber; NoText stands for null.
extractSerialNumber(deviceName) ==
  IF deviceName = <<>> THEN NoText
  ELSE IF FirstHyphen(deviceName) # 0 THEN Trim(ToUpperCase(AfterFirstHyphen(deviceName)))
  ELSE NoText

\* ninjaone/route.ts:128-132: the serial the Device Sync matches with.
normalizedNinjaSerial(raw) == Trim(ToUpperCase(Trim(raw)))

\* ninjaone/route.ts:303: the serial the merge compares.
mergeNinjaSerial(raw) == AlnumOnly(ToLowerCase(Trim(raw)))

\* .ilike(column, pattern) for a pattern without wildcards: equal up to case; NULL never matches.
ILike(column, pattern) == column # NoText /\ ToUpperCase(column) = ToUpperCase(pattern)

\* ---- the upstream systems ---------------------------------------------------
\* Directory users in the order getAllUsers returns them; each has one employees row
\* (entra_id is UNIQUE), identified here with the user.
UserOrder == <<"u1", "u2">>
Users == {UserOrder[i] : i \in 1..Len(UserOrder)}

\* The machine as the directory knows it: one device id with its display name.
AzureDeviceId == "X"
DisplayName == <<"a", "-", "s", "1">>

\* The agents the device management system reports.
NinjaIds == {"N1", "N2"}

\* What the device management system reports for its agents: N1 runs on the machine the
\* directory knows (its hardware serial in two spellings, its system name equal to the
\* directory's display name or not); N2 reports the same serial under another name.
Machines ==
  { [serial |-> [n \in NinjaIds |-> IF n = "N1" THEN sr ELSE <<"s", "1">>],
     name   |-> [n \in NinjaIds |-> IF n = "N1" THEN nm ELSE <<"p", "c", "2">>]]
    : sr \in {<<"s", "1">>, <<"S", "1", " ">>},
      nm \in {<<"A", "-", "S", "1">>, <<"p", "c">>} }

DefaultMachine == CHOOSE m \in Machines : m.serial["N1"] = <<"s", "1">> /\ m.name["N1"] = <<"p", "c">>

\* What the directory reports in one run: per user, the registered date of the device, or
\* 0 when the device is not registered to that user.
Snapshots == [Users -> 0..MaxDate]

\* ---- the tables ---------------------------------------------------------------
NoRow == [id |-> 0, azure_device_id |-> Null, ninja_device_id |-> Null,
          serial_number |-> NoText, device_name |-> NoText, employee_id |-> Null,
          last_synced_at |-> 0]

RowById(rows, id) == IF \E r \in rows : r.id = id THEN CHOOSE r \in rows : r.id = id ELSE NoRow

\* update(fields).eq('id', id) on devices. The unique indexes on ninja_device_id and
\* azure_device_id reject the update (rows unchanged) when another row holds the value.
UniqueOk(rows, id, fields) ==
  /\ ("ninja_device_id" \in DOMAIN fields /\ fields.ninja_device_id # Null
        => ~\E r \in rows : r.id # id /\ r.ninja_device_id = fields.ninja_device_id)
  /\ ("azure_device_id" \in DOMAIN fields /\ fields.azure_device_id # Null
        => ~\E r \in rows : r.id # id /\ r.azure_device_id = fields.azure_device_id)

UpdateRow(rows, id, fields) ==
  IF ~UniqueOk(rows, id, fields) THEN rows
  ELSE { IF r.id = id
           THEN [c \in DOMAIN r |-> IF c \in DOMAIN fields THEN fields[c] ELSE r[c]]
           ELSE r : r \in rows }

\* insert(fields) on devices, the id given by the table.
InsertRow(rows, id, fields) ==
  IF ~UniqueOk(rows, id, fields) THEN rows
  ELSE rows \cup {[c \in DOMAIN NoRow |->
                     IF c = "id" THEN id ELSE IF c \in DOMAIN fields THEN fields[c] ELSE NoRow[c]]}

\* delete().eq('id', id) on devices; device_assignments_history.device_id is ON DELETE CASCADE.
DeleteRow(rows, id) == {r \in rows : r.id # id}
CascadeDelete(entries, id) == SelectSeq(entries, LAMBDA e : e.device_id # id)

\* A variant that deletes the current entry instead of closing it (used to test C18).
DeleteCurrent(entries, deviceId, employeeId) ==
  SelectSeq(entries, LAMBDA e : ~(e.device_id = deviceId /\ e.employee_id = employeeId
                                    /\ e.is_current))

\* A variant whose update matches no entry (used to test C35).
CloseNothing(entries, deviceId, employeeId) == entries

\* update({is_current: false, unassignment_date}).eq(device_id).eq(employee_id).eq(is_current, true)
CloseCurrent(entries, deviceId, employeeId) ==
  [i \in 1..Len(entries) |->
     IF entries[i].device_id = deviceId /\ entries[i].employee_id = employeeId
          /\ entries[i].is_current
       THEN [entries[i] EXCEPT !.is_current = FALSE, !.unassigned = TRUE]
       ELSE entries[i]]

\* Indexes of the entries of a (device, employee) pair.
PairEntries(entries, deviceId, employeeId) ==
  {i \in 1..Len(entries) :
     entries[i].device_id = deviceId /\ entries[i].employee_id = employeeId}

CurrentEntries(entries, deviceId) ==
  {i \in 1..Len(entries) : entries[i].device_id = deviceId /\ entries[i].is_current}

NewEntry(deviceId, employeeId, date, current) ==
  [device_id |-> deviceId, employee_id |-> employeeId, is_current |-> current,
   registered_date |-> date, unassigned |-> FALSE]

(***************************************************************************)
(* Directory Sync: POST of sync/entra-id/route.ts.                         *)
(***************************************************************************)
NoRec == [k |-> 1, device_id |-> 0, previousEmployeeId |-> Null, sorted |-> <<>>, i |-> 0]

\* entra-id/route.ts:189-261: the rows the lookup cascade can settle on for a directory
\* device: by azure_device_id; else by serial (devicesBySerial[0], in whatever order the
\* store returns the rows); else by name among rows without azure_device_id (maybeSingle:
\* nothing when several match). Empty: the device is inserted.
DirectoryMatches(rows, azureId, displayName) ==
  LET byAzureId == {r \in rows : r.azure_device_id = azureId}
      serialNumber == extractSerialNumber(displayName)
      bySerial == IF serialNumber = NoText THEN {}
                  ELSE {r \in rows : ILike(r.serial_number, serialNumber)}
      byName == IF displayName = NoText THEN {}
                ELSE {r \in rows : ILike(r.device_name, displayName) /\ r.azure_device_id = Null}
  IN IF byAzureId # {} THEN byAzureId
     ELSE IF bySerial # {} THEN bySerial
     ELSE IF Cardinality(byName) = 1 THEN byName
     ELSE {}

\* A variant of deviceData that takes the device from its employee (used to test C28).
DirectoryDeviceDataUnassigning(existing, azureId, displayName, now) ==
  [azure_device_id |-> azureId, device_name |-> displayName,
   serial_number |-> existing.serial_number, last_synced_at |-> now, employee_id |-> Null]

\* entra-id/route.ts:195, 225, 250, 282: existingDevice?.serial_number. Only the select of
\* the serial lookup returns the column, and that lookup runs only when the name yields a
\* serial; the rows of the lookups by azure_device_id and by name come without it, so the
\* expression is undefined for them.
ExistingSerialNumber(existing, serialNumber) ==
  IF serialNumber # NoText THEN existing.serial_number ELSE NoText

\* entra-id/route.ts:278-301: deviceData; existing is NoRow for a new device.
DirectoryDeviceData(existing, azureId, displayName, now) ==
  LET serialNumber == extractSerialNumber(displayName)
      base == [azure_device_id |-> azureId,
               device_name |-> displayName,
               serial_number |-> IF serialNumber # NoText THEN serialNumber
                                 ELSE ExistingSerialNumber(existing, serialNumber),
               last_synced_at |-> now]
  IN IF existing.employee_id # Null
       THEN [c \in DOMAIN base \cup {"employee_id"} |->
               IF c = "employee_id" THEN existing.employee_id ELSE base[c]]
       ELSE base

\* entra-id/route.ts:267-276: deviceUserRelationships.get(id).push(...), keys in insertion order.
PushRelationship(map, azureId, rel) ==
  IF \E k \in 1..Len(map) : map[k].azure_device_id = azureId
    THEN [k \in 1..Len(map) |->
            IF map[k].azure_device_id = azureId
              THEN [map[k] EXCEPT !.rels = Append(@, rel)] ELSE map[k]]
    ELSE Append(map, [azure_device_id |-> azureId, rels |-> <<rel>>])

\* A Directory Sync run starts; the directory reports `snap` during this run.
DirStart ==
  /\ run = "idle"
  /\ Len(runLog) < MaxRuns
  /\ \E snap \in Snapshots : upstream' = snap
  /\ run' = "dir"
  /\ runLog' = Append(runLog, "dir")
  /\ dpc' = "users"
  /\ userIdx' = 1
  /\ relationships' = <<>>
  /\ allAzureDevices' = {}
  /\ unregisteredDevices' = {}
  /\ rec' = NoRec
  /\ fetchFailed' = {}
  /\ UNCHANGED <<devices, history, nextDeviceId, machine, lastUpstream, workers, ninjaDevices>>
  /\ UNCHANGED <<orchVars, countVars, upsertVars, dedupVars, ixVars>>

\* entra-id/route.ts:189-335: the row the lookups settle on is updated, or a row is inserted.
WriteDirectoryDevice(displayName, now) ==
  LET matches == DirectoryMatches(devices, AzureDeviceId, displayName)
  IN IF matches # {}
       THEN /\ \E existing \in matches :
                 devices' = UpdateRow(devices, existing.id,
                    DirectoryDeviceData(existing, AzureDeviceId, displayName, now))
            /\ UNCHANGED nextDeviceId
       ELSE /\ devices' = InsertRow(devices, nextDeviceId + 1,
                    DirectoryDeviceData(NoRow, AzureDeviceId, displayName, now))
            /\ nextDeviceId' = nextDeviceId + 1

\* entra-id/route.ts:51-368: one iteration of the user loop: the employee row, then the
\* user's device (lookup, relationship, update or insert).
DirUser ==
  /\ run = "dir" /\ dpc = "users"
  /\ userIdx <= Len(UserOrder)
  /\ LET u == UserOrder[userIdx]
     IN IF upstream[u] = 0
          THEN UNCHANGED <<devices, nextDeviceId, relationships>>
          ELSE /\ relationships' = PushRelationship(relationships, AzureDeviceId,
                                     [employee_id |-> u, registered_date |-> upstream[u]])
               /\ WriteDirectoryDevice(DisplayName, Len(runLog))
  /\ userIdx' = userIdx + 1
  /\ dpc' = IF userIdx = Len(UserOrder) THEN "snapshot" ELSE "users"
  /\ UNCHANGED <<history, machine, run, runLog, upstream, lastUpstream, allAzureDevices,
                 unregisteredDevices, rec, workers, ninjaDevices>>
  /\ UNCHANGED <<orchVars, countVars, upsertVars, dedupVars, ixVars, fetchFailed>>

\* entra-id/route.ts:99-123, azure-graph.ts:135-162: an iteration of the user loop that
\* obtains none of the person's devices: the employee write returned no row (its error is
\* not read, employeeRecord?.id is undefined and the device block is skipped), or
\* getUserDevices caught an error of the directory and returned [].
DirUserFailed ==
  /\ run = "dir" /\ dpc = "users"
  /\ userIdx <= Len(UserOrder)
  /\ fetchFailed' = fetchFailed \cup {UserOrder[userIdx]}
  /\ userIdx' = userIdx + 1
  /\ dpc' = IF userIdx = Len(UserOrder) THEN "snapshot" ELSE "users"
  /\ UNCHANGED <<devices, nextDeviceId, relationships, history, machine, run, runLog, upstream,
                 lastUpstream, allAzureDevices, unregisteredDevices, rec, workers, ninjaDevices>>
  /\ UNCHANGED <<orchVars, countVars, upsertVars, dedupVars, ixVars>>

\* A variant that finds no unregistered device (used to test C7).
UnregisteredNone(rows, syncedAzureDeviceIds) == {}

\* entra-id/route.ts:384-386: the rows with a directory id nobody was observed with.
Unregistered(rows, syncedAzureDeviceIds) ==
  {d \in rows : /\ d.azure_device_id # Null
                /\ d.azure_device_id \notin syncedAzureDeviceIds
                /\ d.employee_id # Null}

\* entra-id/route.ts:378-386: read the rows with a directory id, pick the unregistered ones.
DirSnapshot ==
  /\ run = "dir" /\ dpc = "snapshot"
  /\ LET rows == {r \in devices : r.azure_device_id # Null}
         synced == {relationships[k].azure_device_id : k \in 1..Len(relationships)}
     IN /\ allAzureDevices' = rows
        /\ unregisteredDevices' = Unregistered(rows, synced)
        /\ dpc' = IF Unregistered(rows, synced) # {} THEN "unreg_close" ELSE "reconcile"
  /\ UNCHANGED <<devices, history, nextDeviceId, machine, run, runLog, upstream, lastUpstream,
                 userIdx, relationships, rec, workers, ninjaDevices>>
  /\ UNCHANGED <<orchVars, countVars, upsertVars, dedupVars, ixVars, fetchFailed>>

\* entra-id/route.ts:391-401: close the current entry of an unregistered device.
DirUnregClose ==
  /\ run = "dir" /\ dpc = "unreg_close"
  /\ \E d \in unregisteredDevices :
       /\ history' = CloseCurrent(history, d.id, d.employee_id)
       /\ rec' = [rec EXCEPT !.device_id = d.id]
  /\ dpc' = "unreg_clear"
  /\ UNCHANGED <<devices, nextDeviceId, machine, run, runLog, upstream, lastUpstream, userIdx,
                 relationships, allAzureDevices, unregisteredDevices, workers, ninjaDevices>>
  /\ UNCHANGED <<orchVars, countVars, upsertVars, dedupVars, ixVars, fetchFailed>>

\* entra-id/route.ts:403-408: clear employee_id of that device.
DirUnregClear ==
  /\ run = "dir" /\ dpc = "unreg_clear"
  /\ devices' = UpdateRow(devices, rec.device_id, [employee_id |-> Null])
  /\ unregisteredDevices' = {d \in unregisteredDevices : d.id # rec.device_id}
  /\ dpc' = IF unregisteredDevices' # {} THEN "unreg_close" ELSE "reconcile"
  /\ rec' = [rec EXCEPT !.device_id = 0]
  /\ UNCHANGED <<history, nextDeviceId, machine, run, runLog, upstream, lastUpstream, userIdx,
                 relationships, allAzureDevices, workers, ninjaDevices>>
  /\ UNCHANGED <<orchVars, countVars, upsertVars, dedupVars, ixVars, fetchFailed>>

\* A variant that leaves the relationships in the order of observation (used to test C6).
Unsorted(rels) == rels

\* entra-id/route.ts:437-441: relationships.sort((a, b) => dateB - dateA): stable, latest first.
RECURSIVE InsertRel(_, _)
InsertRel(sorted, rel) ==
  IF sorted = <<>> THEN <<rel>>
  ELSE IF Head(sorted).registered_date >= rel.registered_date
    THEN <<Head(sorted)>> \o InsertRel(Tail(sorted), rel)
    ELSE <<rel>> \o sorted

RECURSIVE SortRelationships(_)
SortRelationships(rels) ==
  IF rels = <<>> THEN <<>>
  ELSE InsertRel(SortRelationships(SubSeq(rels, 1, Len(rels) - 1)), rels[Len(rels)])

\* entra-id/route.ts:414-445: next device of the map: read its row, sort its relationships.
\* A device id without a row is skipped; after the last one the run goes on to its close.
DirReconcile ==
  /\ run = "dir" /\ dpc = "reconcile"
  /\ IF rec.k > Len(relationships)
       THEN /\ dpc' = "finish"
            /\ UNCHANGED rec
       ELSE LET rows == {r \in devices :
                           r.azure_device_id = relationships[rec.k].azure_device_id}
            IN IF rows = {}
                 THEN /\ rec' = [rec EXCEPT !.k = @ + 1]
                      /\ UNCHANGED dpc
                 ELSE \E deviceRecord \in rows :
                        /\ rec' = [k |-> rec.k,
                                   device_id |-> deviceRecord.id,
                                   previousEmployeeId |-> deviceRecord.employee_id,
                                   sorted |-> SortRelationships(relationships[rec.k].rels),
                                   i |-> 2]
                        /\ dpc' = "rec_close"
  /\ UNCHANGED <<devices, history, nextDeviceId, machine, run, runLog, upstream, lastUpstream,
                 userIdx, relationships, allAzureDevices, unregisteredDevices, workers, ninjaDevices>>
  /\ UNCHANGED <<orchVars, countVars, upsertVars, dedupVars, ixVars, fetchFailed>>

\* A variant that never sees a change of hands (used to test C4).
NeverChanges(previousEmployeeId, newEmployeeId) == FALSE

\* entra-id/route.ts:458: the assignment changes hands.
AssignmentChanges(previousEmployeeId, newEmployeeId) ==
  previousEmployeeId # Null /\ previousEmployeeId # newEmployeeId

\* entra-id/route.ts:457-473: close the previous employee's current entry.
DirRecClose ==
  /\ run = "dir" /\ dpc = "rec_close"
  /\ history' = IF AssignmentChanges(rec.previousEmployeeId, rec.sorted[1].employee_id)
                  THEN CloseCurrent(history, rec.device_id, rec.previousEmployeeId)
                  ELSE history
  /\ dpc' = "rec_assign"
  /\ UNCHANGED <<devices, nextDeviceId, machine, run, runLog, upstream, lastUpstream, userIdx,
                 relationships, allAzureDevices, unregisteredDevices, rec, workers, ninjaDevices>>
  /\ UNCHANGED <<orchVars, countVars, upsertVars, dedupVars, ixVars, fetchFailed>>

\* entra-id/route.ts:475-489: write the winner's employee_id.
DirRecAssign ==
  /\ run = "dir" /\ dpc = "rec_assign"
  /\ devices' = UpdateRow(devices, rec.device_id, [employee_id |-> rec.sorted[1].employee_id])
  /\ dpc' = "rec_current"
  /\ UNCHANGED <<history, nextDeviceId, machine, run, runLog, upstream, lastUpstream, userIdx,
                 relationships, allAzureDevices, unregisteredDevices, rec, workers, ninjaDevices>>
  /\ UNCHANGED <<orchVars, countVars, upsertVars, dedupVars, ixVars, fetchFailed>>

\* .maybeSingle() over the matching entries: the entry when exactly one matches, nothing
\* when none does, and nothing (with an error nobody reads) when several do.
MaybeSingle(matching) == IF Cardinality(matching) = 1 THEN matching ELSE {}

\* entra-id/route.ts:491-526: the winner's current entry: insert it, or refresh its date.
DirRecCurrent ==
  /\ run = "dir" /\ dpc = "rec_current"
  /\ LET winner == rec.sorted[1]
         existingHistory ==
           MaybeSingle({i \in PairEntries(history, rec.device_id, winner.employee_id) :
                          history[i].is_current})
     IN history' =
          IF existingHistory = {}
            THEN Append(history, NewEntry(rec.device_id, winner.employee_id,
                                          winner.registered_date, TRUE))
            ELSE [i \in 1..Len(history) |->
                    IF i \in existingHistory
                      THEN [history[i] EXCEPT !.registered_date = winner.registered_date]
                      ELSE history[i]]
  /\ dpc' = "rec_losers"
  /\ UNCHANGED <<devices, nextDeviceId, machine, run, runLog, upstream, lastUpstream, userIdx,
                 relationships, allAzureDevices, unregisteredDevices, rec, workers, ninjaDevices>>
  /\ UNCHANGED <<orchVars, countVars, upsertVars, dedupVars, ixVars, fetchFailed>>

\* entra-id/route.ts:528-552: one iteration of the loop over the other observers; after
\* the last one, the next device of the map.
DirRecLoser ==
  /\ run = "dir" /\ dpc = "rec_losers"
  /\ IF rec.i > Len(rec.sorted)
       THEN /\ rec' = [rec EXCEPT !.k = @ + 1]
            /\ dpc' = "reconcile"
            /\ UNCHANGED history
       ELSE LET rel == rec.sorted[rec.i]
                existingRelHistory ==
                  MaybeSingle(PairEntries(history, rec.device_id, rel.employee_id))
            IN /\ history' =
                    IF existingRelHistory = {}
                      THEN Append(history, NewEntry(rec.device_id, rel.employee_id,
                                                    rel.registered_date, FALSE))
                      ELSE history
               /\ rec' = [rec EXCEPT !.i = @ + 1]
               /\ UNCHANGED dpc
  /\ UNCHANGED <<devices, nextDeviceId, machine, run, runLog, upstream, lastUpstream, userIdx,
                 relationships, allAzureDevices, unregisteredDevices, workers, ninjaDevices>>
  /\ UNCHANGED <<orchVars, countVars, upsertVars, dedupVars, ixVars, fetchFailed>>

\* No Directory Sync snapshot.
NoUpstream == [u \in Users |-> 0 - 1]

\* entra-id/route.ts:558-586: the run ends; its locals go away.
DirFinish ==
  /\ run = "dir" /\ dpc = "finish"
  /\ run' = "idle"
  /\ dpc' = "idle"
  /\ lastUpstream' = upstream
  /\ upstream' = NoUpstream
  /\ userIdx' = 0
  /\ relationships' = <<>>
  /\ allAzureDevices' = {}
  /\ unregisteredDevices' = {}
  /\ rec' = NoRec
  /\ UNCHANGED <<devices, history, nextDeviceId, machine, runLog, workers, ninjaDevices>>
  /\ UNCHANGED <<orchVars, countVars, upsertVars, dedupVars, ixVars, fetchFailed>>

(***************************************************************************)
(* Device Sync: POST of sync/ninjaone/route.ts. The devices of a batch are *)
(* processed by parallel workers (Promise.all over batch.map); a worker is *)
(* followed through its store calls: the lookup, the merge, the write.     *)
(***************************************************************************)
Unset == "unset"                       \* a key deviceData does not have

IdleWorker == [pc |-> "off", existing |-> NoRow, azure |-> Unset, employee |-> Unset,
               merged |-> FALSE, rule |-> "none"]

\* ninjaone/route.ts:112: the name the lookup uses.
ninjaDeviceName(systemName) == Trim(ToLowerCase(systemName))

\* ninjaone/route.ts:214-227: the fuzzy name match against one candidate row.
FuzzyNameMatch(deviceName, candidate) ==
  LET candidateName == Trim(ToLowerCase(candidate)) IN
  /\ candidateName # NoText
  /\ \/ AlnumOnly(deviceName) = AlnumOnly(candidateName)
     \/ Includes(deviceName, candidateName)
     \/ Includes(candidateName, deviceName)

\* ninjaone/route.ts:110-231: the rows the lookup cascade can settle on for an agent:
\* by ninja_device_id; else by serial among rows with a directory id and no agent
\* (potentialMatches[0]); else by exact name (single: nothing when several match); else
\* the first row of the table, in the order the store returns it, whose name is similar.
NinjaMatches(rows, ninjaId, rawSerial, systemName) ==
  LET deviceName == ninjaDeviceName(systemName)
      byNinjaId == {r \in rows : r.ninja_device_id = ninjaId}
      bySerial == IF Trim(rawSerial) = NoText THEN {}
                  ELSE {r \in rows : /\ r.azure_device_id # Null
                                     /\ r.ninja_device_id = Null
                                     /\ ILike(r.serial_number, normalizedNinjaSerial(rawSerial))}
      byNameExact == {r \in rows : ILike(r.device_name, deviceName)}
      fuzzy == {r \in rows : FuzzyNameMatch(deviceName, r.device_name)}
  IN IF byNinjaId # {} THEN byNinjaId
     ELSE IF bySerial # {} THEN bySerial
     ELSE IF deviceName = NoText THEN {}
     ELSE IF Cardinality(byNameExact) = 1 THEN byNameExact
     ELSE fuzzy

\* The rule of the cascade that produced NinjaMatches (history kept with the worker).
NinjaRule(rows, ninjaId, rawSerial, systemName) ==
  LET deviceName == ninjaDeviceName(systemName)
      byNinjaId == {r \in rows : r.ninja_device_id = ninjaId}
      bySerial == IF Trim(rawSerial) = NoText THEN {}
                  ELSE {r \in rows : /\ r.azure_device_id # Null
                                     /\ r.ninja_device_id = Null
                                     /\ ILike(r.serial_number, normalizedNinjaSerial(rawSerial))}
      byNameExact == {r \in rows : ILike(r.device_name, deviceName)}
      fuzzy == {r \in rows : FuzzyNameMatch(deviceName, r.device_name)}
  IN IF byNinjaId # {} THEN "id"
     ELSE IF bySerial # {} THEN "serial"
     ELSE IF deviceName = NoText THEN "none"
     ELSE IF Cardinality(byNameExact) = 1 THEN "name"
     ELSE IF fuzzy # {} THEN "fuzzy"
     ELSE "none"

\* A variant that takes the key from the row matched first, NULL included (used to test C5).
EmployeeOfFirstMatch(first, final) == first.employee_id

\* ninjaone/route.ts:287-289, 385-390, 479-481: the employee_id key of the update:
\* that of the row finally written when it has one, else that of the row matched first,
\* else no key at all.
DeviceDataEmployee(first, final) ==
  IF final.employee_id # Null THEN final.employee_id
  ELSE IF first.employee_id # Null THEN first.employee_id
  ELSE Unset

\* A variant that writes the key without a value (used to test C19).
DeviceDataAzureIdCleared(first, final) == Null

\* ninjaone/route.ts:292-294, 385-386, 476-478: the azure_device_id key of the update.
DeviceDataAzureId(first, final) ==
  IF final.azure_device_id # Null THEN final.azure_device_id
  ELSE IF first.azure_device_id # Null THEN first.azure_device_id
  ELSE Unset

\* ninjaone/route.ts:270-294: deviceData.
NinjaDeviceData(ninjaId, rawSerial, systemName, azure, employee, now) ==
  LET keys == {"ninja_device_id", "device_name", "serial_number", "last_synced_at"}
                \cup (IF azure # Unset THEN {"azure_device_id"} ELSE {})
                \cup (IF employee # Unset THEN {"employee_id"} ELSE {})
  IN [c \in keys |->
        CASE c = "ninja_device_id" -> ninjaId
          [] c = "device_name" -> systemName
          [] c = "serial_number" -> rawSerial
          [] c = "last_synced_at" -> now
          [] c = "azure_device_id" -> azure
          [] c = "employee_id" -> employee]

\* ninjaone/route.ts:82-101: a Device Sync run starts with the agents the device
\* management system lists (ninjaDevices), all of them in one batch.
DevStart ==
  /\ run = "idle"
  /\ Len(runLog) < MaxRuns
  /\ \E batch \in (SUBSET NinjaIds) \ {{}} :
       /\ ninjaDevices' = batch
       /\ workers' = [n \in NinjaIds |->
                       IF n \in batch THEN [IdleWorker EXCEPT !.pc = "lookup"] ELSE IdleWorker]
  /\ run' = "dev"
  /\ runLog' = Append(runLog, "dev")
  /\ UNCHANGED <<devices, history, nextDeviceId, machine, upstream, lastUpstream, dpc, userIdx,
                 relationships, allAzureDevices, unregisteredDevices, rec>>
  /\ UNCHANGED <<orchVars, countVars, upsertVars, dedupVars, ixVars, fetchFailed>>

\* ninjaone/route.ts:110-294: the lookup cascade and the keys taken over from the match.
WLookup(n) ==
  /\ run = "dev" /\ workers[n].pc = "lookup"
  /\ LET matches == NinjaMatches(devices, n, machine.serial[n], machine.name[n])
         found(e) ==
           workers' = [workers EXCEPT ![n] =
             [pc |-> IF e # NoRow /\ e.azure_device_id = Null
                          /\ Trim(machine.serial[n]) # NoText
                       THEN "merge" ELSE "write",
              existing |-> e,
              azure |-> DeviceDataAzureId(e, e),
              employee |-> DeviceDataEmployee(e, e),
              merged |-> FALSE,
              rule |-> NinjaRule(devices, n, machine.serial[n], machine.name[n])]]
     IN IF matches = {} THEN found(NoRow) ELSE \E e \in matches : found(e)
  /\ UNCHANGED <<devices, history, nextDeviceId, machine, run, runLog, upstream, lastUpstream,
                 dpc, userIdx, relationships, allAzureDevices, unregisteredDevices, rec, ninjaDevices>>
  /\ UNCHANGED <<orchVars, countVars, upsertVars, dedupVars, ixVars, fetchFailed>>

\* ninjaone/route.ts:337-361: does the row with a directory id stand for the agent's machine?
MergeMatch(azureDeviceName, rawSerial) ==
  LET name == Trim(azureDeviceName)
      normalizedAzureSerial ==
        IF FirstHyphen(name) # 0
          THEN AlnumOnly(Trim(ToLowerCase(AfterFirstHyphen(name)))) ELSE NoText
      normalizedAzureName == AlnumOnly(ToLowerCase(name))
      normalizedSerial == mergeNinjaSerial(rawSerial)
  IN /\ normalizedSerial # NoText
     /\ \/ normalizedAzureSerial # NoText /\ normalizedSerial = normalizedAzureSerial
        \/ Len(normalizedSerial) >= 4 /\ Includes(normalizedAzureName, normalizedSerial)

\* ninjaone/route.ts:296-392: the matched row has no directory id: look for the row with
\* a directory id (and no other agent) that stands for the same machine; if there is one,
\* delete the matched row and go on with that one. (The candidates are read ordered by
\* device_name; the directory knows one device id, so at most one row can match.)
WMerge(n) ==
  /\ run = "dev" /\ workers[n].pc = "merge"
  /\ LET w == workers[n]
         candidates == {a \in devices : /\ a.azure_device_id # Null
                                        /\ a.ninja_device_id \in {Null, n}
                                        /\ MergeMatch(a.device_name, machine.serial[n])}
     IN IF candidates = {}
          THEN /\ workers' = [workers EXCEPT ![n].pc = "write"]
               /\ UNCHANGED <<devices, history>>
          ELSE \E azureDevice \in candidates :
                 /\ devices' = DeleteRow(devices, w.existing.id)
                 /\ history' = CascadeDelete(history, w.existing.id)
                 /\ workers' = [workers EXCEPT ![n] =
                       [pc |-> "write",
                        existing |-> azureDevice,
                        azure |-> DeviceDataAzureId(w.existing, azureDevice),
                        employee |-> DeviceDataEmployee(w.existing, azureDevice),
                        merged |-> TRUE,
                        rule |-> w.rule]]
  /\ UNCHANGED <<nextDeviceId, machine, run, runLog, upstream, lastUpstream, dpc, userIdx,
                 relationships, allAzureDevices, unregisteredDevices, rec, ninjaDevices>>
  /\ UNCHANGED <<orchVars, countVars, upsertVars, dedupVars, ixVars, fetchFailed>>

\* ninjaone/route.ts:432-463: before an insert, the rows with a directory id and the agent's
\* serial; of several, the one synced last.
SerialMatchBeforeInsert(rows, ninjaId, rawSerial) ==
  LET bySerial == IF Trim(rawSerial) = NoText THEN {}
                  ELSE {r \in rows : /\ r.azure_device_id # Null
                                     /\ r.ninja_device_id \in {Null, ninjaId}
                                     /\ ILike(r.serial_number, normalizedNinjaSerial(rawSerial))}
  IN {r \in bySerial : \A o \in bySerial : o.last_synced_at <= r.last_synced_at}

\* The outcome of update(fields).eq('id', id): an error when a unique index rejects it.
UpdateFails(rows, id, fields) == (\E r \in rows : r.id = id) /\ ~UniqueOk(rows, id, fields)

\* ninjaone/route.ts:394-513: update the matched row, or update the row found by serial,
\* or insert a new row; a store error is thrown and fails the device.
WWrite(n) ==
  /\ run = "dev" /\ workers[n].pc = "write"
  /\ LET w == workers[n]
         now == Len(runLog)
         data(first, final) ==
           NinjaDeviceData(n, machine.serial[n], machine.name[n],
                           IF first = final THEN w.azure ELSE DeviceDataAzureId(first, final),
                           IF first = final THEN w.employee ELSE DeviceDataEmployee(first, final),
                           now)
         write(id, fields) ==
           IF UpdateFails(devices, id, fields)
             THEN /\ workers' = [workers EXCEPT ![n].pc = "failed"]
                  /\ UNCHANGED <<devices, nextDeviceId>>
             ELSE /\ devices' = UpdateRow(devices, id, fields)
                  /\ workers' = [workers EXCEPT ![n].pc = "done"]
                  /\ UNCHANGED nextDeviceId
         bySerial == SerialMatchBeforeInsert(devices, n, machine.serial[n])
     IN IF w.existing # NoRow
          THEN write(w.existing.id, data(w.existing, w.existing))
          ELSE IF bySerial # {}
            THEN \E bestMatch \in bySerial : write(bestMatch.id, data(NoRow, bestMatch))
            ELSE IF UniqueOk(devices, 0, data(NoRow, NoRow))
              THEN /\ devices' = InsertRow(devices, nextDeviceId + 1, data(NoRow, NoRow))
                   /\ nextDeviceId' = nextDeviceId + 1
                   /\ workers' = [workers EXCEPT ![n].pc = "done"]
              ELSE /\ workers' = [workers EXCEPT ![n].pc = "failed"]
                   /\ UNCHANGED <<devices, nextDeviceId>>
  /\ UNCHANGED <<history, machine, run, runLog, upstream, lastUpstream, dpc, userIdx,
                 relationships, allAzureDevices, unregisteredDevices, rec, ninjaDevices>>
  /\ UNCHANGED <<orchVars, countVars, upsertVars, dedupVars, ixVars, fetchFailed>>

\* ninjaone/route.ts:590-622: every worker of the batch has returned; the run ends.
DevFinish ==
  /\ run = "dev"
  /\ \A n \in NinjaIds : workers[n].pc \in {"off", "done", "failed"}
  /\ run' = "idle"
  /\ workers' = [n \in NinjaIds |-> IdleWorker]
  /\ UNCHANGED <<devices, history, nextDeviceId, machine, runLog, upstream, lastUpstream, dpc,
                 userIdx, relationships, allAzureDevices, unregisteredDevices, rec, ninjaDevices>>
  /\ UNCHANGED <<orchVars, countVars, upsertVars, dedupVars, ixVars, fetchFailed>>

\* ---- the tables after construction, and the task runs -----------------------
\* No run in progress, no history.
StoreAtRest ==
  /\ history = <<>>
  /\ run = "idle"
  /\ runLog = <<>>
  /\ upstream = NoUpstream
  /\ lastUpstream = NoUpstream
  /\ fetchFailed = {}
  /\ dpc = "idle"
  /\ userIdx = 0
  /\ relationships = <<>>
  /\ allAzureDevices = {}
  /\ unregisteredDevices = {}
  /\ rec = NoRec
  /\ workers = [n \in NinjaIds |-> IdleWorker]
  /\ ninjaDevices = {}

StoreEmpty ==
  /\ devices = {}
  /\ nextDeviceId = 0
  /\ StoreAtRest

DirectorySync ==
  \/ DirStart \/ DirUser \/ DirSnapshot \/ DirUnregClose \/ DirUnregClear \/ DirReconcile
  \/ DirRecClose \/ DirRecAssign \/ DirRecCurrent \/ DirRecLoser \/ DirFinish

DeviceSync ==
  \/ DevStart \/ DevFinish
  \/ \E n \in NinjaIds : WLookup(n) \/ WMerge(n) \/ WWrite(n)

(***************************************************************************)
(* PART 3.  The employees table and the counters of a task run: the user   *)
(* loop of Directory Sync (entra-id/route.ts:51-368) and the batch of      *)
(* Device Sync (ninjaone/route.ts:96-599), with the store calls on         *)
(* employees and the outcome of each entity's processing. What the same    *)
(* code does to devices and history is Part 2; here the devices of a       *)
(* person are summarized by the outcome of their processing.               *)
(***************************************************************************)

\* ---- bounds ---------------------------------------------------------------
MaxFetches == 3       \* task runs followed one after another
MaxDay == 2           \* last sign-ins happen on days 1..MaxDay

\* ---- dates ----------------------------------------------------------------
NoDate == 0                            \* a NULL date column
NoSignIn == [day |-> NoDate, time |-> 0]   \* signInActivity.lastSignInDateTime absent

\* lastSignInDateTime.split('T')[0]: the day of a timestamp.
SplitDate(dateTime) == dateTime.day

\* new Date().toISOString().split('T')[0] in run n: a day after every sign-in.
Today(n) == MaxDay + n

\* ---- what the directory reports about a person ----------------------------
SignIns == {NoSignIn} \cup {[day |-> d, time |-> 1] : d \in 1..MaxDay}

PersonFacts == [accountEnabled : BOOLEAN, lastSignIn : SignIns]

\* getAllUsers(): the people of one fetch, in the directory's order.
RECURSIVE FetchedFrom(_, _)
FetchedFrom(order, present) ==
  IF order = <<>> THEN {<<>>}
  ELSE LET rest == FetchedFrom(Tail(order), present)
           here == IF Head(order) \in present
                     THEN {[id |-> Head(order), accountEnabled |-> f.accountEnabled,
                            lastSignIn |-> f.lastSignIn] : f \in PersonFacts}
                     ELSE {}
       IN IF here = {} THEN rest ELSE {<<h>> \o r : h \in here, r \in rest}

Fetches == UNION {FetchedFrom(UserOrder, present) : present \in SUBSET Users}

\* ---- the employees table ----------------------------------------------------
NoEmployee == [entra_id |-> Null, employment_status |-> "none", termination_date |-> NoDate]

\* .from('employees').select(...).eq('entra_id', id).single()
EmployeeByEntraId(rows, id) ==
  IF \E r \in rows : r.entra_id = id THEN CHOOSE r \in rows : r.entra_id = id ELSE NoEmployee

\* entra-id/route.ts:54
EmploymentStatus(accountEnabled) == IF accountEnabled THEN "active" ELSE "terminated"

\* A variant that recomputes the date at every run (used to test C17).
TerminationDateFresh(existingEmployee, azureUser, today) ==
  IF azureUser.accountEnabled THEN NoDate
  ELSE IF azureUser.lastSignIn # NoSignIn THEN SplitDate(azureUser.lastSignIn) ELSE today

\* entra-id/route.ts:67-78
TerminationDate(existingEmployee, azureUser, today) ==
  LET terminationDate == existingEmployee.termination_date IN
  IF EmploymentStatus(azureUser.accountEnabled) = "terminated" /\ terminationDate = NoDate
    THEN IF azureUser.lastSignIn # NoSignIn
           THEN SplitDate(azureUser.lastSignIn) ELSE today
    ELSE terminationDate

\* entra-id/route.ts:80-97
EmployeeData(existingEmployee, azureUser, today) ==
  [entra_id |-> azureUser.id,
   employment_status |-> EmploymentStatus(azureUser.accountEnabled),
   termination_date |-> TerminationDate(existingEmployee, azureUser, today)]

\* A variant of the upsert that drops the people not fetched (used to test C16).
UpsertAndPrune(rows, existingEmployee, data) == {data}

\* entra-id/route.ts:99-117: update of the row found, or insert.
UpsertEmployee(rows, existingEmployee, data) ==
  IF existingEmployee # NoEmployee
    THEN {IF r.entra_id = existingEmployee.entra_id THEN data ELSE r : r \in rows}
    ELSE rows \cup {data}

\* ---- the runs ----------------------------------------------------------------
NoNinjaLog == [run |-> 0, status |-> "none", records_synced |-> 0, records_failed |-> 0,
               error_message |-> <<>>]
NoSoftware == [run |-> 0, device |-> Null, outcome |-> "none"]
NoTaskLog == [NewLog("none") EXCEPT !.status = "none"]

\* ninjaone/route.ts:603-613: what Device Sync writes to its row when it closes.
NinjaLogUpdate(runNo, synced, failed, errs) ==
  [run |-> runNo,
   status |-> IF failed > 0 THEN "partial" ELSE "success",
   records_synced |-> synced,
   records_failed |-> failed,
   error_message |-> errs]

\* A variant of the catch of a follow-up that counts the failure (used to test C27).
SoftwareCatchCounted(failed, outcome) == IF outcome = "ok" THEN failed ELSE failed + 1

\* ninjaone/route.ts:578-580: .catch(() => {}) of the follow-up: the counter of failures
\* after a follow-up has settled is the counter before it.
SoftwareCatch(failed, outcome) == failed

CountsEmpty ==
  /\ employees = {}
  /\ cpc = "idle"
  /\ fetches = 0
  /\ azureUsers = <<>>
  /\ cIdx = 0
  /\ ninjaBatch = {}
  /\ batchResults = <<>>
  /\ recordsSynced = 0
  /\ recordsFailed = 0
  /\ errors = <<>>
  /\ processed = <<>>
  /\ everFetched = {}
  /\ employeeFault = FALSE
  /\ softwareSyncs = {}
  /\ ninjaLog = NoNinjaLog
  /\ taskLog = NoTaskLog
  /\ lastSoftware = NoSoftware

\* entra-id/route.ts:34-40: a Directory Sync run starts and fetches the people.
CDirStart ==
  /\ cpc = "idle"
  /\ fetches < MaxFetches
  /\ \E f \in Fetches :
       /\ azureUsers' = f
       /\ everFetched' = everFetched \cup {f[i].id : i \in 1..Len(f)}
       /\ cpc' = IF f = <<>> THEN "close" ELSE "users"
  /\ fetches' = fetches + 1
  /\ cIdx' = 1
  /\ recordsSynced' = 0
  /\ recordsFailed' = 0
  /\ errors' = <<>>
  /\ processed' = <<>>
  /\ taskLog' = NewLog("entra_id")
  /\ UNCHANGED <<employees, ninjaBatch, batchResults, employeeFault, softwareSyncs, ninjaLog,
                 lastSoftware>>
  /\ UNCHANGED <<orchVars, storeVars, upsertVars, dedupVars, ixVars>>

\* entra-id/route.ts:51-368: one iteration of the user loop. The lookup returns the row, or
\* nothing (also when the read fails: its error is not read); the update or insert is
\* applied, or returns an error nobody reads (employeeRecord stays undefined and the
\* person's devices are skipped), or something in the iteration raises. The devices of the
\* person are processed in try blocks of their own (339-342, 358-361). Only what reaches
\* the catch of the iteration (364-367) is counted as failed.
CUser ==
  /\ cpc = "users"
  /\ cIdx <= Len(azureUsers)
  /\ LET azureUser == azureUsers[cIdx]
         stored == EmployeeByEntraId(employees, azureUser.id)
     IN \E read \in {"ok", "error"}, write \in {"ok", "error", "throw"},
           device \in {"ok", "error", "throw"} :
          LET existingEmployee == IF read = "ok" THEN stored ELSE NoEmployee
              data == EmployeeData(existingEmployee, azureUser, Today(fetches))
              \* entra_id is UNIQUE: an insert beside the row the lookup missed is refused
              outcome == IF write = "ok" /\ existingEmployee = NoEmployee /\ stored # NoEmployee
                           THEN "error" ELSE write
          IN /\ employees' = IF outcome = "ok"
                               THEN UpsertEmployee(employees, existingEmployee, data)
                               ELSE employees
             /\ employeeFault' = (employeeFault \/ read # "ok" \/ outcome # "ok")
             /\ processed' = Append(processed,
                                [id |-> azureUser.id, upsert |-> outcome,
                                 device |-> IF outcome = "ok" THEN device ELSE "skipped",
                                 previous |-> stored.termination_date])
             /\ IF outcome = "throw"
                  THEN /\ recordsFailed' = recordsFailed + 1
                       /\ errors' = Append(errors, azureUser.id)
                       /\ UNCHANGED recordsSynced
                  ELSE /\ recordsSynced' = recordsSynced + 1
                       /\ UNCHANGED <<recordsFailed, errors>>
  /\ cIdx' = cIdx + 1
  /\ cpc' = IF cIdx = Len(azureUsers) THEN "close" ELSE "users"
  /\ UNCHANGED <<fetches, azureUsers, ninjaBatch, batchResults, everFetched, softwareSyncs,
                 ninjaLog, taskLog, lastSoftware>>
  /\ UNCHANGED <<orchVars, storeVars, upsertVars, dedupVars, ixVars>>

\* ninjaone/route.ts:82-101: a Device Sync run starts with one batch of devices.
CBatchStart ==
  /\ cpc = "idle"
  /\ fetches < MaxFetches
  /\ \E b \in (SUBSET NinjaIds) \ {{}} :
       /\ ninjaBatch' = b
  /\ cpc' = "batch"
  /\ fetches' = fetches + 1
  /\ batchResults' = <<>>
  /\ recordsSynced' = 0
  /\ recordsFailed' = 0
  /\ errors' = <<>>
  /\ processed' = <<>>
  /\ taskLog' = NewLog("ninjaone")
  /\ UNCHANGED <<employees, azureUsers, cIdx, everFetched, employeeFault, softwareSyncs,
                 ninjaLog, lastSoftware>>
  /\ UNCHANGED <<orchVars, storeVars, upsertVars, dedupVars, ixVars>>

\* ninjaone/route.ts:101-589: one worker of the batch returns: its device was written, or
\* something raised (a store error on the update or insert is thrown at 408-410, 488-490,
\* 502-508) and the catch at 583-587 records it. A worker that wrote its device has started
\* the software follow-up of the device and returns without awaiting it (515-582).
CDevice(n) ==
  /\ cpc = "batch"
  /\ n \in ninjaBatch
  /\ ~\E i \in 1..Len(batchResults) : batchResults[i].deviceId = n
  /\ \E outcome \in {"ok", "throw"} :
       /\ batchResults' = Append(batchResults, [success |-> outcome = "ok", deviceId |-> n])
       /\ errors' = IF outcome = "ok" THEN errors ELSE Append(errors, n)
       /\ processed' = Append(processed, [id |-> n, upsert |-> outcome, device |-> "none",
                                           previous |-> NoDate])
       /\ softwareSyncs' = IF outcome = "ok"
                             THEN softwareSyncs \cup {[run |-> fetches, device |-> n]}
                             ELSE softwareSyncs
  /\ UNCHANGED <<employees, cpc, fetches, azureUsers, cIdx, ninjaBatch, recordsSynced,
                 recordsFailed, everFetched, employeeFault, ninjaLog, taskLog, lastSoftware>>
  /\ UNCHANGED <<orchVars, storeVars, upsertVars, dedupVars, ixVars>>

\* ninjaone/route.ts:590-599: Promise.all returned: count the batch.
CBatchCount ==
  /\ cpc = "batch"
  /\ Len(batchResults) = Cardinality(ninjaBatch)
  /\ recordsSynced' = recordsSynced
       + Cardinality({i \in 1..Len(batchResults) : batchResults[i].success})
  /\ recordsFailed' = recordsFailed
       + Cardinality({i \in 1..Len(batchResults) : ~batchResults[i].success})
  /\ cpc' = "close"
  /\ UNCHANGED <<employees, fetches, azureUsers, cIdx, ninjaBatch, batchResults, errors,
                 processed, everFetched, employeeFault, softwareSyncs, ninjaLog, taskLog, lastSoftware>>
  /\ UNCHANGED <<orchVars, storeVars, upsertVars, dedupVars, ixVars>>

\* entra-id/route.ts:564-586, ninjaone/route.ts:601-622: the run writes its counters to its
\* row and returns; its locals go away.
CFinish ==
  /\ cpc = "close"
  /\ cpc' = "idle"
  /\ azureUsers' = <<>>
  /\ cIdx' = 0
  /\ ninjaBatch' = {}
  /\ batchResults' = <<>>
  /\ recordsSynced' = 0
  /\ recordsFailed' = 0
  /\ errors' = <<>>
  /\ processed' = <<>>
  /\ ninjaLog' = IF ninjaBatch # {}
                   THEN NinjaLogUpdate(fetches, recordsSynced, recordsFailed, errors)
                   ELSE ninjaLog
  /\ taskLog' = LET fields == TaskCloseOk(recordsSynced, recordsFailed, "entity", "closed")
                IN [c \in DOMAIN taskLog |->
                      IF c \in DOMAIN fields THEN fields[c] ELSE taskLog[c]]
  /\ UNCHANGED <<employees, fetches, everFetched, employeeFault, softwareSyncs, lastSoftware>>
  /\ UNCHANGED <<orchVars, storeVars, upsertVars, dedupVars, ixVars>>

\* ninjaone/route.ts:516-580: the software follow-up of a device settles, at any time after
\* its worker returned, also after the run has closed: the inventory was fetched and
\* written, or the fetch or a write failed and the catch at 578-580 swallows it.
CSoftware(f) ==
  /\ f \in softwareSyncs
  /\ \E outcome \in {"ok", "fail"} :
       /\ lastSoftware' = [run |-> f.run, device |-> f.device, outcome |-> outcome]
       /\ recordsFailed' = SoftwareCatch(recordsFailed, outcome)
  /\ softwareSyncs' = softwareSyncs \ {f}
  /\ UNCHANGED <<employees, cpc, fetches, azureUsers, cIdx, ninjaBatch, batchResults,
                 recordsSynced, errors, processed, everFetched, employeeFault, ninjaLog, taskLog>>
  /\ UNCHANGED <<orchVars, storeVars, upsertVars, dedupVars, ixVars>>

(***************************************************************************)
(* Part 6: writers of one device that work at the same time: the           *)
(* reconciliation of the device in two Directory Sync runs                 *)
(* (entra-id/route.ts:422-526) and a worker of Device Sync that found the  *)
(* device by its own id (ninjaone/route.ts:114-121, 285-289, 396-406).     *)
(* Every await of the code is a step of its own.                           *)
(***************************************************************************)
Reconcilers == {"r1", "r2"}
IxWorkers == {"w"}
IxDeviceId == 1

IdleProc == [pc |-> "idle", previousEmployeeId |-> Null, newEmployeeId |-> Null,
             existingHistory |-> {}]

IxIdle ==
  /\ ixEmployee = Null
  /\ ixHistory = <<>>
  /\ ixProcs = [p \in Reconcilers \cup IxWorkers |-> IdleProc]

\* entra-id/route.ts:424-445: the reconciliation reads the row of the device; the winner of
\* the observations of its run is some person.
IxRead(p) ==
  /\ p \in Reconcilers
  /\ ixProcs[p].pc = "idle"
  /\ \E winner \in Users :
       ixProcs' = [ixProcs EXCEPT ![p] = [IdleProc EXCEPT !.pc = "close",
                                                          !.previousEmployeeId = ixEmployee,
                                                          !.newEmployeeId = winner]]
  /\ UNCHANGED <<ixEmployee, ixHistory>>
  /\ UNCHANGED <<orchVars, storeVars, countVars, upsertVars, dedupVars>>

\* entra-id/route.ts:457-473: close the current entry of the previous employee.
IxClose(p) ==
  /\ p \in Reconcilers
  /\ ixProcs[p].pc = "close"
  /\ ixHistory' = IF AssignmentChanges(ixProcs[p].previousEmployeeId, ixProcs[p].newEmployeeId)
                    THEN CloseCurrent(ixHistory, IxDeviceId, ixProcs[p].previousEmployeeId)
                    ELSE ixHistory
  /\ ixProcs' = [ixProcs EXCEPT ![p].pc = "assign"]
  /\ UNCHANGED ixEmployee
  /\ UNCHANGED <<orchVars, storeVars, countVars, upsertVars, dedupVars>>

\* entra-id/route.ts:475-489: update the device with the winning employee_id.
IxAssign(p) ==
  /\ p \in Reconcilers
  /\ ixProcs[p].pc = "assign"
  /\ ixEmployee' = ixProcs[p].newEmployeeId
  /\ ixProcs' = [ixProcs EXCEPT ![p].pc = "check"]
  /\ UNCHANGED ixHistory
  /\ UNCHANGED <<orchVars, storeVars, countVars, upsertVars, dedupVars>>

\* entra-id/route.ts:491-497: is the winner's current entry recorded already?
IxCheck(p) ==
  /\ p \in Reconcilers
  /\ ixProcs[p].pc = "check"
  /\ ixProcs' = [ixProcs EXCEPT
         ![p].pc = "record",
         ![p].existingHistory =
            MaybeSingle({i \in PairEntries(ixHistory, IxDeviceId, ixProcs[p].newEmployeeId) :
                           ixHistory[i].is_current})]
  /\ UNCHANGED <<ixEmployee, ixHistory>>
  /\ UNCHANGED <<orchVars, storeVars, countVars, upsertVars, dedupVars>>

\* entra-id/route.ts:499-526: insert the current entry when none was found (the table has
\* no unique index on the current entry of a device); else only its date is refreshed.
IxRecord(p) ==
  /\ p \in Reconcilers
  /\ ixProcs[p].pc = "record"
  /\ ixHistory' = IF ixProcs[p].existingHistory = {}
                    THEN Append(ixHistory, NewEntry(IxDeviceId, ixProcs[p].newEmployeeId, 1, TRUE))
                    ELSE ixHistory
  /\ ixProcs' = [ixProcs EXCEPT ![p].pc = "done"]
  /\ UNCHANGED ixEmployee
  /\ UNCHANGED <<orchVars, storeVars, countVars, upsertVars, dedupVars>>

\* ninjaone/route.ts:114-121: the worker reads the row of the device, employee_id included.
IxWorkerRead(p) ==
  /\ p \in IxWorkers
  /\ ixProcs[p].pc = "idle"
  /\ ixProcs' = [ixProcs EXCEPT ![p].pc = "write", ![p].previousEmployeeId = ixEmployee]
  /\ UNCHANGED <<ixEmployee, ixHistory>>
  /\ UNCHANGED <<orchVars, storeVars, countVars, upsertVars, dedupVars>>

\* ninjaone/route.ts:285-289, 396-406: the update carries the employee_id the worker read,
\* when it read one.
IxWorkerWrite(p) ==
  /\ p \in IxWorkers
  /\ ixProcs[p].pc = "write"
  /\ LET existingDevice == [employee_id |-> ixProcs[p].previousEmployeeId]
         key == DeviceDataEmployee(existingDevice, existingDevice)
     IN ixEmployee' = IF key = Unset THEN ixEmployee ELSE key
  /\ ixProcs' = [ixProcs EXCEPT ![p].pc = "done"]
  /\ UNCHANGED ixHistory
  /\ UNCHANGED <<orchVars, storeVars, countVars, upsertVars, dedupVars>>

(***************************************************************************)
(* Part 5: the deduplication of the registrations of one person by the     *)
(* serial extracted from their names (entra-id/route.ts:140-183).          *)
(* Timestamps are ISO strings, abbreviated here to their year.             *)
(***************************************************************************)
MaxRegistrations == 3

Digits == <<"0", "1", "2", "3", "4", "5", "6", "7", "8", "9">>
CharCode(c) == CHOOSE i \in 1..Len(Digits) : Digits[i] = c

\* a > b on strings: by the first character that differs; a proper prefix is smaller.
RECURSIVE StrGreater(_, _)
StrGreater(a, b) ==
  IF a = <<>> THEN FALSE
  ELSE IF b = <<>> THEN TRUE
  ELSE IF Head(a) = Head(b) THEN StrGreater(Tail(a), Tail(b))
  ELSE CharCode(Head(a)) > CharCode(Head(b))

EpochDate == <<"1", "9", "7", "0">>
RegisteredDates == {NoText, <<"2", "0", "2", "3">>, <<"2", "0", "2", "4">>}
SignInDates == {NoText, <<"2", "0", "2", "5">>}
RegistrationNames == {<<"a", "-", "s", "1">>, <<"b", "-", "S", "1">>, <<"p", "c">>}
IsManagedValues == {"true", "false", "undefined"}

\* The deviceId of the registration at position i of the list.
DeviceIdAt(i) == <<"d", Digits[i + 1]>>

RegistrationLists ==
  UNION {[1..n -> [displayName : RegistrationNames,
                   isManaged : IsManagedValues,
                   registeredDateTime : RegisteredDates,
                   approximateLastSignInDateTime : SignInDates]] : n \in 1..MaxRegistrations}

\* The list with the deviceId of each registration.
WithDeviceIds(list) ==
  [i \in 1..Len(list) |->
     [displayName |-> list[i].displayName,
      deviceId |-> DeviceIdAt(i),
      isManaged |-> list[i].isManaged,
      registeredDateTime |-> list[i].registeredDateTime,
      approximateLastSignInDateTime |-> list[i].approximateLastSignInDateTime]]

\* entra-id/route.ts:148: serialNumber || device.deviceId || ...
DedupKey(device) ==
  LET serialNumber == extractSerialNumber(device.displayName)
  IN IF serialNumber # NoText THEN serialNumber ELSE device.deviceId

\* entra-id/route.ts:155-156: isManaged !== false
IsActive(device) == device.isManaged # "false"

\* entra-id/route.ts:158-159: registeredDateTime || approximateLastSignInDateTime || '1970-01-01'
RegistrationDate(device) ==
  IF device.registeredDateTime # NoText THEN device.registeredDateTime
  ELSE IF device.approximateLastSignInDateTime # NoText
    THEN device.approximateLastSignInDateTime
  ELSE EpochDate

\* A variant that compares the dates only (used to test C29).
ReplacesByDateOnly(existing, device) ==
  StrGreater(RegistrationDate(device), RegistrationDate(existing))

\* entra-id/route.ts:161-174: the registration replaces the one the Map holds under its key.
Replaces(existing, device) ==
  IF IsActive(device) /\ ~IsActive(existing) THEN TRUE
  ELSE IF ~IsActive(device) /\ IsActive(existing) THEN FALSE
  ELSE StrGreater(RegistrationDate(device), RegistrationDate(existing))

\* entra-id/route.ts:150-175: one iteration of the forEach on the Map.
MapAfter(map, device) ==
  LET key == DedupKey(device)
  IN IF ~\E k \in 1..Len(map) : map[k].key = key
       THEN Append(map, [key |-> key, device |-> device])
       ELSE [k \in 1..Len(map) |->
               IF map[k].key = key /\ Replaces(map[k].device, device)
                 THEN [key |-> key, device |-> device] ELSE map[k]]

DedupIdle ==
  /\ azureDevices = <<>>
  /\ dedupPc = "idle"
  /\ dedupIdx = 0
  /\ deviceMapBySerial = <<>>
  /\ uniqueDevices = <<>>
  /\ extractName = NoText
  /\ extractResult = NoText
  /\ extractPc = "idle"

\* entra-id/route.ts:144-175: azureDevices.forEach, one registration.
DedupEach ==
  /\ dedupPc = "each"
  /\ dedupIdx <= Len(azureDevices)
  /\ deviceMapBySerial' = MapAfter(deviceMapBySerial, azureDevices[dedupIdx])
  /\ dedupIdx' = dedupIdx + 1
  /\ UNCHANGED <<azureDevices, dedupPc, uniqueDevices, extractName, extractResult, extractPc>>
  /\ UNCHANGED <<orchVars, storeVars, countVars, upsertVars, ixVars>>

\* entra-id/route.ts:177: the values of the Map are the registrations to upsert.
DedupValues ==
  /\ dedupPc = "each"
  /\ dedupIdx > Len(azureDevices)
  /\ uniqueDevices' = [k \in 1..Len(deviceMapBySerial) |-> deviceMapBySerial[k].device]
  /\ dedupPc' = "done"
  /\ UNCHANGED <<azureDevices, dedupIdx, deviceMapBySerial, extractName, extractResult, extractPc>>
  /\ UNCHANGED <<orchVars, storeVars, countVars, upsertVars, ixVars>>

\* The characters of the display names extractSerialNumber is tried on, and the names.
MaxNameLen == 4
NameChars == {"a", "S", "-", " "}
DeviceNames == UNION {[1..n -> NameChars] : n \in 0..MaxNameLen}

\* entra-id/route.ts:145: const serialNumber = extractSerialNumber(device.displayName || '')
ExtractSerial ==
  /\ extractPc = "call"
  /\ extractResult' = extractSerialNumber(extractName)
  /\ extractPc' = "returned"
  /\ UNCHANGED <<azureDevices, dedupPc, dedupIdx, deviceMapBySerial, uniqueDevices, extractName>>
  /\ UNCHANGED <<orchVars, storeVars, countVars, upsertVars, ixVars>>

\* The display names of the directory device, with and without a hyphen.
DirectoryNames == {<<"p", "c">>, <<"P", "C">>, DisplayName}

\* The rows an earlier Directory Sync or Device Sync run can have left for the machine.
StoredRows ==
  {[id |-> 1, azure_device_id |-> a, ninja_device_id |-> n, serial_number |-> sn,
    device_name |-> nm, employee_id |-> e, last_synced_at |-> 0] :
      a \in {Null, AzureDeviceId}, n \in {Null, "N1"},
      sn \in {NoText, <<"S", "1">>, <<"s", "1">>}, nm \in DirectoryNames,
      e \in {Null} \cup Users}

\* entra-id/route.ts:186-335: Directory Sync processes one device of a person: the lookups,
\* the serial extracted from the display name, the update or the insert.
DirDevice ==
  /\ extractPc = "call"
  /\ extractResult' = extractSerialNumber(extractName)
  /\ WriteDirectoryDevice(extractName, 1)
  /\ extractPc' = "returned"
  /\ UNCHANGED <<azureDevices, dedupPc, dedupIdx, deviceMapBySerial, uniqueDevices, extractName>>
  /\ UNCHANGED <<history, machine, run, runLog, upstream, lastUpstream, fetchFailed, dpc,
                 userIdx, relationships, allAzureDevices, unregisteredDevices, rec, workers,
                 ninjaDevices>>
  /\ UNCHANGED <<orchVars, countVars, upsertVars, ixVars>>

(***************************************************************************)
(* Part 4: upserts of devices in flight at the same time. Each is the      *)
(* lookup by the source's own external id followed by the update of the    *)
(* row found or the insert of a new row, as a worker of Device Sync        *)
(* (ninjaone/route.ts:115-121, 394-512) or an iteration of the device loop *)
(* of Directory Sync (entra-id/route.ts:193-204, 291-338) performs them,   *)
(* in two requests running at once or for two entries of one batch. The    *)
(* table has the unique indexes of the schema on both id columns.          *)
(***************************************************************************)
Upserters == {"p1", "p2"}
ExternalIds == {"E1", "E2"}
Sources == {"dir", "dev"}

NoUpsertRow == [id |-> 0, azure_device_id |-> Null, ninja_device_id |-> Null]

IdleUpsert == [pc |-> "idle", source |-> "none", key |-> Null, existing |-> NoUpsertRow,
               outcome |-> "none"]

UpsertsIdle ==
  /\ upsertDevices = {}
  /\ upserts = [p \in Upserters |-> IdleUpsert]
  /\ upsertNextId = 0

\* The column a source looks its own external id up in.
IdOf(row, source) == IF source = "dir" THEN row.azure_device_id ELSE row.ninja_device_id

\* .eq('azure_device_id', id).maybeSingle() / .eq('ninja_device_id', id).single()
RowByExternalId(rows, source, key) ==
  IF \E r \in rows : IdOf(r, source) = key
    THEN CHOOSE r \in rows : IdOf(r, source) = key
    ELSE NoUpsertRow

\* The row a source inserts for a device it did not find.
NewUpsertRow(id, source, key) ==
  [id |-> id,
   azure_device_id |-> IF source = "dir" THEN key ELSE Null,
   ninja_device_id |-> IF source = "dev" THEN key ELSE Null]

\* What the code does when the insert is refused by a unique index: Device Sync throws and
\* the device is counted as failed (ninjaone/route.ts:505-507, 583-587); Directory Sync
\* logs the error, reads the duplicate to log it, and goes on to the next device
\* (entra-id/route.ts:323-334).
AfterConflict(source) == IF source = "dev" THEN "failed" ELSE "dropped"

\* A sync task comes to a device of its source, the first one or the one after the device
\* it has ended with.
UArrive(p) ==
  /\ upserts[p].pc \in {"idle", "done"}
  /\ \E source \in Sources, key \in ExternalIds :
       upserts' = [upserts EXCEPT ![p] = [IdleUpsert EXCEPT !.pc = "lookup",
                                                           !.source = source, !.key = key]]
  /\ UNCHANGED <<upsertDevices, upsertNextId>>
  /\ UNCHANGED <<orchVars, storeVars, countVars, dedupVars, ixVars>>

\* The lookup by the source's own external id.
ULookup(p) ==
  /\ upserts[p].pc = "lookup"
  /\ upserts' = [upserts EXCEPT ![p].pc = "write",
                                ![p].existing = RowByExternalId(upsertDevices, upserts[p].source,
                                                                upserts[p].key)]
  /\ UNCHANGED <<upsertDevices, upsertNextId>>
  /\ UNCHANGED <<orchVars, storeVars, countVars, dedupVars, ixVars>>

\* The update of the row found, or the insert, which the unique index refuses when a row
\* carries the id by now.
UWrite(p) ==
  /\ upserts[p].pc = "write"
  /\ LET u == upserts[p]
         taken == \E r \in upsertDevices : IdOf(r, u.source) = u.key
     IN IF u.existing # NoUpsertRow
          THEN /\ upserts' = [upserts EXCEPT ![p].pc = "done", ![p].outcome = "updated"]
               /\ UNCHANGED <<upsertDevices, upsertNextId>>
          ELSE IF ~taken
            THEN /\ upsertDevices' = upsertDevices
                        \cup {NewUpsertRow(upsertNextId + 1, u.source, u.key)}
                 /\ upsertNextId' = upsertNextId + 1
                 /\ upserts' = [upserts EXCEPT ![p].pc = "done", ![p].outcome = "inserted"]
            ELSE /\ upserts' = [upserts EXCEPT ![p].pc = "done",
                                               ![p].outcome = AfterConflict(u.source)]
                 /\ UNCHANGED <<upsertDevices, upsertNextId>>
  /\ UNCHANGED <<orchVars, storeVars, countVars, dedupVars, ixVars>>

(***************************************************************************)
(* Specification of one orchestrator run.                                  *)
(***************************************************************************)
OrchInit ==
  /\ sync_logs \in InitialLogs
  /\ pc = "idle"
  /\ syncId = 0
  /\ results = [azure |-> EmptyResult, ninjaone |-> EmptyResult]
  /\ azureResponse = NoResponse
  /\ azureCompletedInDB = FALSE
  /\ backgroundChecker = FALSE
  /\ waitAttempt = 0
  /\ updateData = NoUpdate
  /\ activeSyncs = {}
  /\ az = IdleCall
  /\ nj = IdleCall
  /\ other = IdleCall
  /\ writeFault = FALSE
  /\ closeWrites = 0
  /\ closeDoubt = FALSE
  /\ thrown = NoMsg
  /\ lastStatus = NoReport
  /\ machine = DefaultMachine
  /\ StoreEmpty
  /\ CountsEmpty
  /\ UpsertsIdle
  /\ DedupIdle
  /\ IxIdle

\* The steps of the orchestrator's own task.
OrchStep ==
  \/ Start \/ AzureFetch \/ FetchResolve \/ AzureTimeout \/ Poll60 \/ Poll60Exhausted
  \/ AzureHandle \/ Poll120 \/ Poll120Exhausted \/ FinalVerify \/ NinjaFetch
  \/ NinjaResponse \/ NinjaTimeout \/ NinjaCatch \/ Compute \/ CloseBefore \/ CloseUpdate
  \/ CloseRetry \/ Verify1 \/ Verify2 \/ Verify3 \/ SecondUpdate \/ Verify4 \/ RetryVerify
  \/ ForceUpdate \/ LastResort \/ FailClose \/ FailLastResort \/ Finish

\* One run of the orchestrator with the two requests it makes.
RunNext ==
  \/ OrchStep \/ BackgroundCheck \/ Unexpected
  \/ AzStart \/ AzFinish \/ NjStart \/ NjFinish

\* ... polled by the caller that started it.
OrchNext == RunNext \/ GetStatus

\* ... with a Directory Sync triggered by somebody else in the meantime.
ConcurrentNext == RunNext \/ OtherStart \/ OtherFinish

vars == <<orchVars, storeVars, countVars, upsertVars, dedupVars, ixVars>>

OrchSpec == OrchInit /\ [][OrchNext]_vars

ConcurrentSpec == OrchInit /\ [][ConcurrentNext]_vars

\* The task keeps running (timers fire, store calls return) and the caller keeps polling
\* with reads that eventually show the row as it is.
OrchFairSpec ==
  OrchSpec /\ WF_vars(OrchStep) /\ WF_vars(GetStatusReading(FALSE, FALSE))

(***************************************************************************)
(* Specification of the task runs on the employees table and the counters. *)
(***************************************************************************)
CountInit == OrchInit /\ sync_logs = <<>>

CountNext ==
  \/ CDirStart \/ CUser \/ CBatchStart \/ CBatchCount \/ CFinish
  \/ \E n \in NinjaIds : CDevice(n)

CountSpec == CountInit /\ [][CountNext]_vars

(***************************************************************************)
(* Specification of the Device Sync runs together with the software        *)
(* follow-ups their workers start, which settle at any later time.         *)
(***************************************************************************)
SoftwareNext ==
  \/ CBatchStart \/ CBatchCount \/ CFinish
  \/ \E n \in NinjaIds : CDevice(n)
  \/ \E f \in softwareSyncs : CSoftware(f)

SoftwareSpec == CountInit /\ [][SoftwareNext]_vars

(***************************************************************************)
(* The process that executes the orchestrator's task ends (crash, or the   *)
(* platform reclaims the serverless instance): the task and activeSyncs,   *)
(* which live in its memory (all/route.ts:8-9, 51), are gone. The          *)
(* repository has no code that looks for rows left open.                   *)
(***************************************************************************)
Crash ==
  /\ syncId # 0
  /\ pc \notin {"idle", "done", "crashed"}
  /\ ~Closed(sync_logs, syncId)
  /\ pc' = "crashed"
  /\ activeSyncs' = {}
  /\ backgroundChecker' = FALSE
  /\ UNCHANGED <<sync_logs, syncId, results, azureResponse, azureCompletedInDB, waitAttempt,
                 updateData, az, nj, other, writeFault, closeWrites, closeDoubt, thrown, lastStatus>>
  /\ UNCHANGED <<storeVars, countVars, upsertVars, dedupVars, ixVars>>

CrashNext == OrchNext \/ Crash

\* The task keeps running as long as its process lives; the caller keeps polling.
CrashFairSpec ==
  OrchInit /\ [][CrashNext]_vars /\ WF_vars(OrchStep) /\ WF_vars(GetStatusReading(FALSE, FALSE))

(***************************************************************************)
(* Specification of the two syncs on the tables: task runs one after       *)
(* another (each a Directory Sync or a Device Sync) from an empty store,   *)
(* the workers of a Device Sync interleaved.                               *)
(***************************************************************************)
StoreInit ==
  /\ sync_logs = <<>>
  /\ pc = "idle"
  /\ syncId = 0
  /\ results = [azure |-> EmptyResult, ninjaone |-> EmptyResult]
  /\ azureResponse = NoResponse
  /\ azureCompletedInDB = FALSE
  /\ backgroundChecker = FALSE
  /\ waitAttempt = 0
  /\ updateData = NoUpdate
  /\ activeSyncs = {}
  /\ az = IdleCall
  /\ nj = IdleCall
  /\ other = IdleCall
  /\ writeFault = FALSE
  /\ closeWrites = 0
  /\ closeDoubt = FALSE
  /\ thrown = NoMsg
  /\ lastStatus = NoReport
  /\ machine \in Machines
  /\ StoreEmpty
  /\ CountsEmpty
  /\ UpsertsIdle
  /\ DedupIdle
  /\ IxIdle

StoreNext == DirectorySync \/ DeviceSync

StoreSpec == StoreInit /\ [][StoreNext]_vars

\* Directory Sync runs in which the devices of a person may not be obtained.
FetchNext == DirectorySync \/ DirUserFailed

FetchSpec == StoreInit /\ [][FetchNext]_vars

UpsertInit == CountInit

UpsertNext == \E p \in Upserters : UArrive(p) \/ ULookup(p) \/ UWrite(p)

UpsertSpec == UpsertInit /\ [][UpsertNext]_vars

(***************************************************************************)
(* Specification of the deduplication: getUserDevices has returned some    *)
(* list of registrations for the person, everything else is at rest.       *)
(***************************************************************************)
\* The orchestrator is at rest.
OrchAtRest ==
  /\ sync_logs = <<>>
  /\ pc = "idle"
  /\ syncId = 0
  /\ results = [azure |-> EmptyResult, ninjaone |-> EmptyResult]
  /\ azureResponse = NoResponse
  /\ azureCompletedInDB = FALSE
  /\ backgroundChecker = FALSE
  /\ waitAttempt = 0
  /\ updateData = NoUpdate
  /\ activeSyncs = {}
  /\ az = IdleCall
  /\ nj = IdleCall
  /\ other = IdleCall
  /\ writeFault = FALSE
  /\ closeWrites = 0
  /\ closeDoubt = FALSE
  /\ thrown = NoMsg
  /\ lastStatus = NoReport
  /\ machine = DefaultMachine

\* Everything but the deduplication is at rest.
RestIdle ==
  /\ OrchAtRest
  /\ StoreEmpty
  /\ CountsEmpty
  /\ UpsertsIdle

DedupInit ==
  /\ RestIdle
  /\ IxIdle
  /\ \E list \in RegistrationLists : azureDevices = WithDeviceIds(list)
  /\ dedupPc = "each"
  /\ dedupIdx = 1
  /\ deviceMapBySerial = <<>>
  /\ uniqueDevices = <<>>
  /\ extractName = NoText
  /\ extractResult = NoText
  /\ extractPc = "idle"

DedupNext == DedupEach \/ DedupValues

DedupSpec == DedupInit /\ [][DedupNext]_vars

(***************************************************************************)
(* Specification of the writers of one device: the device has no employee, *)
(* or has one and the current entry that goes with it.                     *)
(***************************************************************************)
IxInit ==
  /\ RestIdle
  /\ DedupIdle
  /\ ixEmployee \in {Null} \cup Users
  /\ ixHistory = IF ixEmployee = Null THEN <<>>
                 ELSE <<NewEntry(IxDeviceId, ixEmployee, 1, TRUE)>>
  /\ ixProcs = [p \in Reconcilers \cup IxWorkers |-> IdleProc]

IxNext ==
  \/ \E p \in Reconcilers : IxRead(p) \/ IxClose(p) \/ IxAssign(p) \/ IxCheck(p) \/ IxRecord(p)
  \/ \E p \in IxWorkers : IxWorkerRead(p) \/ IxWorkerWrite(p)

IxSpec == IxInit /\ [][IxNext]_vars

(***************************************************************************)
(* Specification of extractSerialNumber: it is called with some display    *)
(* name, everything else is at rest.                                       *)
(***************************************************************************)
ExtractInit ==
  /\ RestIdle
  /\ IxIdle
  /\ azureDevices = <<>>
  /\ dedupPc = "idle"
  /\ dedupIdx = 0
  /\ deviceMapBySerial = <<>>
  /\ uniqueDevices = <<>>
  /\ extractName \in DeviceNames
  /\ extractResult = NoText
  /\ extractPc = "call"

ExtractNext == ExtractSerial

ExtractSpec == ExtractInit /\ [][ExtractNext]_vars

(***************************************************************************)
(* Specification of one device of a person processed by Directory Sync:    *)
(* the store holds some row for the machine, the directory reports the     *)
(* device under some display name.                                         *)
(***************************************************************************)
DeviceNameInit ==
  /\ OrchAtRest /\ StoreAtRest /\ CountsEmpty /\ UpsertsIdle /\ IxIdle
  /\ \E row \in StoredRows : devices = {row}
  /\ nextDeviceId = 1
  /\ azureDevices = <<>>
  /\ dedupPc = "idle"
  /\ dedupIdx = 0
  /\ deviceMapBySerial = <<>>
  /\ uniqueDevices = <<>>
  /\ extractName \in DirectoryNames
  /\ extractResult = NoText
  /\ extractPc = "call"

DeviceNameNext == DirDevice

DeviceNameSpec == DeviceNameInit /\ [][DeviceNameNext]_vars

C2_DirectoryFailureStopsRun ==
  (\/ (azureResponse.present /\ ~azureResponse.ok)
   \/ thrown = <<"Azure sync did not complete">>)
  => /\ nj.st = "idle"
     /\ (pc = "done" /\ ~writeFault => sync_logs[syncId].status = "failed")

\* C3: Device Sync is invoked only after the Directory Sync invocation of this run has
\* reached a terminal state, whichever way its completion was detected and whatever other
\* entra_id rows (older, or of a concurrent Directory Sync) the table holds.
C3_DeviceSyncAfterOwnDirectorySync ==
  nj.st # "idle" => az.st = "returned"

\* The status the claim C10 words: failed if errors and nothing synced, partial if errors
\* or failed records with something synced, success otherwise.
C10_Status(hasErrors, totalSynced, totalFailed) ==
  IF hasErrors /\ totalSynced = 0 THEN "failed"
  ELSE IF (hasErrors \/ totalFailed > 0) /\ totalSynced # 0 THEN "partial"
  ELSE "success"

\* Both stages returned a result and the payload computed from them closed the row.
C10_ClosedFromResults ==
  /\ pc = "done"
  /\ updateData # NoUpdate
  /\ sync_logs[syncId].completed_at \in {"L404", "L579"}

C4_AtMostOneCurrentEntry ==
  \A i, j \in 1..Len(history) :
    (history[i].device_id = history[j].device_id
       /\ history[i].is_current /\ history[j].is_current) => i = j

\* The case of C4: after a Device Sync ran, a device changed hands: it has a closed entry of
\* one employee and the current entry of another.
C4_Witness ==
  /\ \E k \in 1..Len(runLog) : runLog[k] = "dev"
  /\ \E i, j \in 1..Len(history) :
       /\ history[i].device_id = history[j].device_id
       /\ history[i].employee_id # history[j].employee_id
       /\ history[i].unassigned /\ ~history[i].is_current
       /\ history[j].is_current

\* C5: no step of a Device Sync run, whatever the interleaving of the workers of the batch,
\* changes or clears the employee_id of a device that has one (only Directory Sync assigns).
C5_DeviceSyncKeepsEmployee ==
  [][run = "dev" =>
       \A r \in devices : r.employee_id # Null =>
          \E q \in devices' : q.id = r.id /\ q.employee_id = r.employee_id]_vars

\* The case of C5: a worker merged its record into an assigned one (deleting its own) and
\* wrote it, and the other worker of the batch resolved to the same record and wrote it too.
C5_Witness ==
  /\ run = "dev"
  /\ \E n, m \in NinjaIds :
       /\ n # m
       /\ workers[n].merged /\ workers[n].pc = "done"
       /\ workers[m].pc = "done"
       /\ workers[m].existing.id = workers[n].existing.id
       /\ RowById(devices, workers[n].existing.id).employee_id # Null

\* The employees the device was observed for in the Directory Sync run in progress.
Observers == {u \in Users : upstream[u] > 0}

\* C6: at the end of a Directory Sync run in which the device was observed for several
\* employees: its employee_id is an observer with the latest registered_date; if it was
\* assigned to somebody else before, that employee has a closed entry (unassignment set) and
\* no current one; the device's only current entry is the winner's, with the winner's date.
C6_LatestRegistrationWins ==
  (run = "dir" /\ dpc = "finish" /\ Cardinality(Observers) > 1) =>
    \E r \in devices :
      /\ r.azure_device_id = AzureDeviceId
      /\ r.employee_id \in Observers
      /\ \A u \in Observers : upstream[u] <= upstream[r.employee_id]
      /\ (rec.previousEmployeeId \notin {Null, r.employee_id} =>
            /\ \E i \in PairEntries(history, r.id, rec.previousEmployeeId) :
                  ~history[i].is_current /\ history[i].unassigned
            /\ \A i \in PairEntries(history, r.id, rec.previousEmployeeId) :
                  ~history[i].is_current)
      /\ \E i \in 1..Len(history) :
            /\ CurrentEntries(history, r.id) = {i}
            /\ history[i].employee_id = r.employee_id
            /\ history[i].registered_date = upstream[r.employee_id]

\* The case of C6: the run ends, the device was observed for both employees with different
\* dates, the later one was observed second, and the device was the other's before.
C6_Witness ==
  /\ run = "dir" /\ dpc = "finish"
  /\ upstream["u1"] > 0 /\ upstream["u2"] > upstream["u1"]
  /\ rec.previousEmployeeId = "u1"
  /\ \E r \in devices : r.azure_device_id = AzureDeviceId /\ r.employee_id = "u2"

\* C7: at the end of a Directory Sync run, every row that had a directory id and an
\* employee_id when the run read the table before reconciling, and whose directory id was
\* observed for nobody in this run, has employee_id NULL, and that employee's entry for it is
\* closed (unassignment set), none current.
C7_UnobservedDeviceIsUnassigned ==
  (run = "dir" /\ dpc = "finish") =>
    \A d \in allAzureDevices :
      (/\ d.employee_id # Null
       /\ ~\E k \in 1..Len(relationships) : relationships[k].azure_device_id = d.azure_device_id)
      => /\ RowById(devices, d.id).id = d.id
         /\ RowById(devices, d.id).employee_id = Null
         /\ CurrentEntries(history, d.id) = {}
         /\ \E i \in PairEntries(history, d.id, d.employee_id) :
               ~history[i].is_current /\ history[i].unassigned

\* The case of C7: the run ends having observed the device for nobody, and the device was
\* somebody's when the run read the table.
C7_Witness ==
  /\ run = "dir" /\ dpc = "finish"
  /\ relationships = <<>>
  /\ \E d \in allAzureDevices : d.employee_id # Null

\* The Directory Sync run in progress repeats the previous run: that one was a Directory
\* Sync too and the directory reports what it reported then.
Rerun ==
  /\ run = "dir"
  /\ Len(runLog) > 1 /\ runLog[Len(runLog) - 1] = "dir"
  /\ lastUpstream = upstream

\* C8: a step of a Directory Sync run that repeats the previous one on unchanged upstream
\* data adds no history entry for a (device, employee) pair that already has one.
C8_RerunAddsNoEntry ==
  [][Rerun =>
       \A i \in (Len(history) + 1)..Len(history') :
          PairEntries(history, history'[i].device_id, history'[i].employee_id) = {}]_vars

\* The agent's serial, normalized, is the serial in the directory's display name.
EqualSerials ==
  normalizedNinjaSerial(machine.serial["N1"]) = extractSerialNumber(DisplayName)

\* From an empty store, one Directory Sync that observed the machine and one Device Sync
\* that listed its agent have run, in either order.
BothSyncsRan ==
  /\ run = "idle"
  /\ runLog \in {<<"dir", "dev">>, <<"dev", "dir">>}
  /\ \E u \in Users : lastUpstream[u] > 0
  /\ ninjaDevices = {"N1"}

\* C9: the serials being equal after normalization, once both syncs have run, in either
\* order, there is exactly one device row and it carries both external ids.
C9_OneRecordWithBothIds ==
  (BothSyncsRan /\ EqualSerials) =>
    \E r \in devices :
      /\ devices = {r}
      /\ r.azure_device_id = AzureDeviceId
      /\ r.ninja_device_id = "N1"

(***************************************************************************)
(* Properties of the status reporter and of the life of a sync_logs row.   *)
(***************************************************************************)
\* C11: getStatus reports isComplete only for a run whose row carries completed_at (a read
\* can show it only then); a read that shows status success with completed_at NULL (the row
\* as inserted, or as a lagging connection still sees it) is reported as not complete.
C11_CompleteOnlyWithCompletedAt ==
  lastStatus.asked /\ lastStatus.isComplete => Closed(sync_logs, syncId)

\* The case of C11: the row is closed in the store, the reads of the poll still showed it
\* with status success and completed_at NULL, and the poll reported it as not complete.
C11_Witness ==
  /\ lastStatus.asked /\ ~lastStatus.isComplete
  /\ lastStatus.status = "success"
  /\ syncId # 0 /\ Closed(sync_logs, syncId)

\* C12: a row of sync_logs whose completed_at is still NULL never holds a terminal status
\* (success, partial, failed).
C12_OpenRowIsRunning ==
  \A id \in DOMAIN sync_logs :
    ~Closed(sync_logs, id) => sync_logs[id].status \notin {"success", "partial", "failed"}

\* C13: once a write has set completed_at of a row, no later write changes the row's status,
\* counts, error message or completed_at.
C13_ClosedRowIsNotRewritten ==
  [][\A id \in DOMAIN sync_logs :
       Closed(sync_logs, id) =>
         /\ sync_logs'[id].status = sync_logs[id].status
         /\ sync_logs'[id].records_synced = sync_logs[id].records_synced
         /\ sync_logs'[id].records_failed = sync_logs[id].records_failed
         /\ sync_logs'[id].error_message = sync_logs[id].error_message
         /\ sync_logs'[id].completed_at = sync_logs[id].completed_at]_vars

\* C14: a run whose process ended after the row was created and before it was closed still
\* has its row closed eventually.
C14_CrashedRunIsEventuallyClosed ==
  (pc = "crashed") ~> (syncId # 0 /\ Closed(sync_logs, syncId))

(***************************************************************************)
(* Properties of the employees table and of the counters.                  *)
(***************************************************************************)
\* The entities of the run in progress whose upsert failed (raised, or was refused).
FailedEntities == {i \in 1..Len(processed) : processed[i].upsert # "ok"}

\* C15: when a task run has gone through its entities (people in Directory Sync, devices in
\* Device Sync), every entity was processed, records_failed counts the entities whose upsert
\* failed, the error list has one message for each of them, and records_synced counts the
\* others only.
C15_FailuresAreCounted ==
  cpc = "close" =>
    /\ Len(processed) = Len(azureUsers) + Cardinality(ninjaBatch)
    /\ recordsFailed = Cardinality(FailedEntities)
    /\ Len(errors) = Cardinality(FailedEntities)
    /\ recordsSynced = Len(processed) - Cardinality(FailedEntities)

\* The external ids of the people fetched in the run in progress.
FetchedNow == {azureUsers[i].id : i \in 1..Len(azureUsers)}

C18_HistoryEntriesAreKept ==
  [][/\ Len(history') >= Len(history)
     /\ \A i \in 1..Len(history) :
          /\ history'[i].device_id = history[i].device_id
          /\ history'[i].employee_id = history[i].employee_id
          /\ (history'[i].is_current => history[i].is_current)]_vars

\* The case of C18: a worker of Device Sync has deleted its management-only row to merge
\* it into the directory row, which has a closed entry and a current one.
C18_Witness ==
  /\ run = "dev"
  /\ \E n \in NinjaIds :
       /\ workers[n].merged /\ workers[n].pc \in {"write", "done"}
       /\ \E i, j \in 1..Len(history) :
            /\ history[i].device_id = workers[n].existing.id
            /\ history[j].device_id = workers[n].existing.id
            /\ ~history[i].is_current /\ history[i].unassigned
            /\ history[j].is_current

\* C19: no step of a Directory Sync run changes the ninja_device_id of a device row (or
\* removes the row), and no step of a Device Sync run changes the azure_device_id of a
\* device row that exists.
C19_EachIdHasOneWriter ==
  [][/\ run = "dir" =>
          \A r \in devices :
            \E q \in devices' : q.id = r.id /\ q.ninja_device_id = r.ninja_device_id
     /\ run = "dev" =>
          \A r \in devices : \A q \in devices' :
            q.id = r.id => q.azure_device_id = r.azure_device_id]_vars

\* The case of C19: a Directory Sync run, then a Device Sync run, then a Directory Sync run
\* that has written a row carrying both ids: Device Sync wrote the row of the directory
\* device, and Directory Sync the row of the agent.
C19_Witness ==
  /\ runLog = <<"dir", "dev", "dir">>
  /\ run = "dir"
  /\ \E r \in devices :
       /\ r.azure_device_id # Null /\ r.ninja_device_id # Null
       /\ r.id = 1
       /\ r.last_synced_at = Len(runLog)
       /\ \E i \in 1..Len(history) : history[i].device_id = r.id /\ ~history[i].is_current

\* C20: when the orchestrator's task leaves the close of its run, the close is not in doubt:
\* if the close update raised or matched no row, or the last re-read did not show
\* completed_at, an update carrying completed_at has been issued since.
C20_DoubtfulCloseIsWrittenAgain ==
  pc \in {"finish", "done"} => ~closeDoubt

\* The background poll ended the wait (all/route.ts:123-138) and results.azure holds the
\* counts of the row of this run's own Directory Sync, closed with status success and
\* without an error message.
PolledOwnSuccess ==
  /\ azureCompletedInDB
  /\ ~azureResponse.present
  /\ az.logId # 0
  /\ Closed(sync_logs, az.logId)
  /\ sync_logs[az.logId].status = "success"
  /\ sync_logs[az.logId].error_message = NoMsg
  /\ results.azure = ResultFromLog(sync_logs[az.logId])

\* C21: when the background poll found the row of the run's Directory Sync completed
\* without error before the response arrived, the orchestrator does not fail the Directory
\* stage: it goes on to Device Sync with the polled counts.
C21_PolledSuccessProceeds ==
  PolledOwnSuccess => thrown # <<"Azure sync failed">>

\* C22: an observation is written to the row that carries its own external id. A step of
\* the worker of agent n, taken while a row carries ninja_device_id n, leaves that row in
\* place carrying n, and when the step is the worker's write, that row is the one written;
\* a step of the user loop of Directory Sync that observes the directory device while a
\* row carries its azure_device_id writes that row.
C22_IdMatchIsWritten ==
  [][/\ \A n \in NinjaIds : \A r \in devices :
          (/\ run = "dev"
           /\ r.ninja_device_id = n
           /\ workers[n].pc \in {"merge", "write"}
           /\ workers'[n].pc # workers[n].pc)
          => \E q \in devices' :
               /\ q.id = r.id
               /\ q.ninja_device_id = n
               /\ (workers'[n].pc = "done" => q.last_synced_at = Len(runLog))
     /\ \A r \in devices :
          (/\ run = "dir" /\ dpc = "users" /\ userIdx' # userIdx
           /\ userIdx <= Len(UserOrder)
           /\ upstream[UserOrder[userIdx]] # 0
           /\ r.azure_device_id = AzureDeviceId)
          => \E q \in devices' :
               /\ q.id = r.id
               /\ q.azure_device_id = AzureDeviceId
               /\ q.last_synced_at = Len(runLog)]_vars

\* The write of the worker of agent n that ends its device: the step from "write" to "done".
WroteDevice(n) == run = "dev" /\ workers[n].pc = "write" /\ workers'[n].pc = "done"

\* The worker of agent n resolved the row it writes by a serial rule: the serial lookup
\* (ninjaone/route.ts:126-155), the merge by serial (296-392) or the serial match before
\* the insert (432-463).
ResolvedBySerial(n) ==
  workers[n].merged \/ workers[n].rule = "serial" \/ workers[n].existing = NoRow

\* C23: a write of Device Sync to a row resolved by serial never lands on a row that
\* carries the ninja_device_id of another agent: two agents with the same serial are not
\* written onto one row.
C23_SerialMatchKeepsOtherAgentsRow ==
  [][\A n \in NinjaIds :
       (WroteDevice(n) /\ ResolvedBySerial(n)) =>
          \A r \in devices : \A q \in devices' :
            (q.id = r.id /\ q # r) => r.ninja_device_id \in {Null, n}]_vars

\* C24: a name match resolves only to a row without the calling source's id. A write of
\* Device Sync to a row resolved by name (exact or fuzzy) lands on a row that had no
\* ninja_device_id, and a write of Directory Sync to a row resolved by name (no row matches
\* the directory id or the serial) lands on a row that had no azure_device_id.
C24_NameMatchOnlyUnboundRows ==
  [][/\ \A n \in NinjaIds :
          (WroteDevice(n) /\ workers[n].rule \in {"name", "fuzzy"} /\ ~workers[n].merged) =>
             \A r \in devices : \A q \in devices' :
               (q.id = r.id /\ q # r) => r.ninja_device_id = Null
     /\ (/\ run = "dir" /\ dpc = "users" /\ userIdx' # userIdx
         /\ ~\E r \in devices : r.azure_device_id = AzureDeviceId
         /\ ~\E r \in devices : ILike(r.serial_number, extractSerialNumber(DisplayName)))
        => \A r \in devices : \A q \in devices' :
             (q.id = r.id /\ q # r) => r.azure_device_id = Null]_vars

\* The candidate the tie-break of the matcher prefers: one with both external ids if a
\* candidate has both, else one synced last.
HasBothIds(r) == r.azure_device_id # Null /\ r.ninja_device_id # Null

Preferred(r, candidates) ==
  IF \E b \in candidates : HasBothIds(b) THEN HasBothIds(r)
  ELSE \A o \in candidates : o.last_synced_at <= r.last_synced_at

\* C25: when several rows satisfy the serial rule or the name rule, the row chosen is the
\* preferred one: for the lookup of a worker of Device Sync (serial or fuzzy name), and for
\* the serial lookup of Directory Sync, whose choice is the row the step writes.
C25_TieBreakAmongCandidates ==
  [][/\ \A n \in NinjaIds :
          (/\ run = "dev" /\ workers[n].pc = "lookup" /\ workers'[n].pc # "lookup"
           /\ workers'[n].rule \in {"serial", "name", "fuzzy"})
          => Preferred(workers'[n].existing,
                       NinjaMatches(devices, n, machine.serial[n], machine.name[n]))
     /\ LET bySerial == {r \in devices :
                           ILike(r.serial_number, extractSerialNumber(DisplayName))}
        IN (/\ run = "dir" /\ dpc = "users" /\ userIdx' # userIdx
            /\ ~\E r \in devices : r.azure_device_id = AzureDeviceId
            /\ extractSerialNumber(DisplayName) # NoText)
           => \A r \in bySerial : \A q \in devices' :
                (q.id = r.id /\ q # r) => Preferred(r, bySerial)]_vars

\* C26: when upserts of one external id of one source run at the same time, every one that
\* has ended either inserted the row or updated it (none ended as failed or dropped), and
\* one row carries the id.
C26_ConflictLoserUpdates ==
  \A p \in Upserters :
    upserts[p].pc = "done" =>
      /\ upserts[p].outcome \in {"inserted", "updated"}
      /\ Cardinality({r \in upsertDevices :
                         IdOf(r, upserts[p].source) = upserts[p].key}) = 1

\* C27: Device Sync closes its row and returns while software follow-ups of its devices are
\* still pending; and the settling of a follow-up, failed or not, leaves the count of failed
\* records, the error list, the results of the workers and the row written at the close
\* (status, counts, error message) as they were.
SoftwareSettles == softwareSyncs' # softwareSyncs /\ softwareSyncs' \subseteq softwareSyncs

C27_SoftwareFailureIsNotCounted ==
  [][SoftwareSettles => UNCHANGED <<recordsFailed, errors, batchResults, ninjaLog>>]_vars

\* A run closed as success with a follow-up of it failed and another still pending.
C27_Witness ==
  /\ cpc = "idle"
  /\ ninjaLog.status = "success"
  /\ lastSoftware.run = ninjaLog.run
  /\ lastSoftware.outcome = "fail"
  /\ \E f \in softwareSyncs : f.run = ninjaLog.run

\* C28: in a Directory Sync run, while people are still being processed no row of devices
\* changes its employee_id (a new row has none) and the history is not touched; the
\* reconciliation is entered once, by the step that processes the last person, and the run
\* never comes back to the people after it; and from then on the observations collected hold
\* every registration the directory reported in the run.
ProcessingPeople == run = "dir" /\ dpc = "users"

Observed(u) ==
  \E k \in 1..Len(relationships) : \E j \in 1..Len(relationships[k].rels) :
    /\ relationships[k].rels[j].employee_id = u
    /\ relationships[k].rels[j].registered_date = upstream[u]

C28_ReconciliationAfterLastPerson ==
  [][/\ ProcessingPeople =>
          /\ history' = history
          /\ \A q \in devices' :
               IF \E r \in devices : r.id = q.id
                 THEN \A r \in devices : r.id = q.id => q.employee_id = r.employee_id
                 ELSE q.employee_id = Null
     /\ (dpc' = "snapshot" /\ dpc # "snapshot") => (ProcessingPeople /\ userIdx = Len(UserOrder))
     /\ (dpc' = "users" /\ ~ProcessingPeople) => run = "idle"
     /\ (run' = "dir" /\ dpc' \notin {"idle", "users"}) =>
          \A u \in DOMAIN upstream' : upstream'[u] # 0 => Observed(u)'
    ]_vars

\* People are still being processed and the row of the directory device, which has an
\* employee from an earlier run, was written in this run.
C28_Witness ==
  /\ ProcessingPeople
  /\ userIdx > 1
  /\ \E r \in devices : /\ r.azure_device_id = AzureDeviceId
                         /\ r.employee_id # Null
                         /\ r.last_synced_at = Len(runLog)

\* C29: when the deduplication of a person's registrations is done, for every serial
\* extracted from their names exactly one of the registrations with that serial is kept;
\* the kept one is active if any of them is; and none of those as active as the kept one
\* has a later registration timestamp (the timestamp of a registration being its
\* registeredDateTime, else its last sign-in, else 1970-01-01).
YearOf(date) ==
  1000 * (CharCode(date[1]) - 1) + 100 * (CharCode(date[2]) - 1)
    + 10 * (CharCode(date[3]) - 1) + (CharCode(date[4]) - 1)

SharingSerial(serial) ==
  {i \in 1..Len(azureDevices) : extractSerialNumber(azureDevices[i].displayName) = serial}

KeptOf(serial) ==
  {k \in 1..Len(uniqueDevices) : extractSerialNumber(uniqueDevices[k].displayName) = serial}

C29_OneRegistrationPerSerial ==
  dedupPc = "done" =>
    \A n \in 1..Len(azureDevices) :
      LET serial == extractSerialNumber(azureDevices[n].displayName)
      IN serial # NoText =>
           /\ Cardinality(KeptOf(serial)) = 1
           /\ \A k \in KeptOf(serial) :
                /\ \E i \in SharingSerial(serial) : uniqueDevices[k] = azureDevices[i]
                /\ (\E i \in SharingSerial(serial) : IsActive(azureDevices[i]))
                     => IsActive(uniqueDevices[k])
                /\ \A i \in SharingSerial(serial) :
                     IsActive(azureDevices[i]) = IsActive(uniqueDevices[k])
                       => YearOf(RegistrationDate(azureDevices[i]))
                            <= YearOf(RegistrationDate(uniqueDevices[k]))

\* Three registrations of one serial: an inactive one with the latest timestamp and two
\* active ones of different timestamps, the earlier one first.
C29_Witness ==
  /\ dedupPc = "done"
  /\ Len(azureDevices) = 3
  /\ Cardinality(SharingSerial(<<"S", "1">>)) = 3
  /\ \E i, j, l \in 1..3 :
       /\ j < l
       /\ ~IsActive(azureDevices[i]) /\ IsActive(azureDevices[j]) /\ IsActive(azureDevices[l])
       /\ YearOf(RegistrationDate(azureDevices[i])) > YearOf(RegistrationDate(azureDevices[l]))
       /\ YearOf(RegistrationDate(azureDevices[l])) > YearOf(RegistrationDate(azureDevices[j]))

\* C30: in every state of the store every row's serial_number, when it has one, is in
\* upper case and has no white space around it.
C30_SerialsAreNormalized ==
  \A r \in devices :
    r.serial_number # NoText => r.serial_number = ToUpperCase(Trim(r.serial_number))

\* C31 (as the specification states it): the result of extractSerialNumber for a name with a
\* hyphen is everything after the first hyphen in upper case, and null (NoText) for a name
\* without a hyphen or an empty name.
C31_ExtractSerialIsTextAfterHyphen ==
  extractPc = "returned" =>
    extractResult = IF FirstHyphen(extractName) # 0
                      THEN ToUpperCase(AfterFirstHyphen(extractName)) ELSE NoText

\* C31 (amended): the result of extractSerialNumber for a name with a hyphen is everything
\* after the first hyphen, later hyphens included, in upper case and without the white
\* space around it; it is null (NoText) for a name without a hyphen or an empty name.
C31_ExtractSerialIsTrimmedTextAfterHyphen ==
  extractPc = "returned" =>
    IF \E i \in 1..Len(extractName) : extractName[i] = "-"
      THEN \E i \in 1..Len(extractName) :
             /\ extractName[i] = "-"
             /\ \A j \in 1..(i - 1) : extractName[j] # "-"
             /\ extractResult = Trim([k \in 1..(Len(extractName) - i) |->
                                        UpperChar(extractName[i + k])])
      ELSE extractResult = NoText

\* A name with two hyphens, lower case and a blank after the first hyphen was extracted.
C31_Witness ==
  /\ extractPc = "returned"
  /\ extractName = <<"-", " ", "a", "-">>
  /\ extractResult = <<"A", "-">>

\* C32: when an invocation of Directory Sync or Device Sync that created its row returns, it
\* has issued the close of that row on the path it took, and, the store having applied it,
\* the row has completed_at set and holds the counters the task had reached: with the status
\* partial or success when the batch finished, and with the status failed and the message of
\* the exception when a task-fatal exception aborted it.
ClosedAsEnded(call) ==
  LET row == sync_logs[call.logId]
  IN /\ row.completed_at # NoStamp
     /\ row.records_synced = call.reached.recordsSynced
     /\ row.records_failed = call.reached.recordsFailed
     /\ IF call.resp = "ok"
          THEN row.status = IF call.reached.recordsFailed > 0 THEN "partial" ELSE "success"
          ELSE row.status = "failed" /\ row.error_message = call.error

C33_WorkerKeepsDirectoryAssignment ==
  [][\A p \in IxWorkers :
       (ixProcs[p].pc = "write" /\ ixProcs'[p].pc = "done") => ixEmployee' = ixEmployee]_vars

\* C34: when the reconciliations of two Directory Sync runs that worked at the same time
\* have ended, the device has at most one current history entry, and that entry is of the
\* employee the device is assigned to.
C34_OneCurrentEntryAfterTwoRuns ==
  (\A p \in Reconcilers : ixProcs[p].pc = "done") =>
     /\ Cardinality(CurrentEntries(ixHistory, IxDeviceId)) <= 1
     /\ \A i \in CurrentEntries(ixHistory, IxDeviceId) : ixHistory[i].employee_id = ixEmployee

\* C35: when a Directory Sync run has completed its reconciliation, every device with a
\* directory id has an employee_id exactly when it has a current history entry, and every
\* current entry of the device is of that employee.
C35_AssignmentMatchesCurrentEntry ==
  (run = "dir" /\ dpc = "finish") =>
    \A d \in devices :
      d.azure_device_id # Null =>
        /\ (d.employee_id # Null) <=> (CurrentEntries(history, d.id) # {})
        /\ \A i \in CurrentEntries(history, d.id) : history[i].employee_id = d.employee_id

\* A run ends on a device that changed hands: one current entry of the new employee, the
\* former one closed.
C35_Witness ==
  /\ run = "dir" /\ dpc = "finish"
  /\ \E d \in devices :
       /\ d.azure_device_id # Null /\ d.employee_id # Null
       /\ \E i \in CurrentEntries(history, d.id) : history[i].employee_id = d.employee_id
       /\ \E i \in 1..Len(history) :
            /\ history[i].device_id = d.id /\ ~history[i].is_current
            /\ history[i].employee_id # d.employee_id

\* C36: a Directory Sync run that did not obtain the devices of a person (the device fetch
\* failed or the person's own write failed) does not unassign a device of that person
\* which the directory still reports for them.
C36_FailedFetchKeepsAssignment ==
  [][(run = "dir" /\ dpc = "unreg_clear" /\ dpc' # dpc) =>
       \A d \in devices :
         (d.id = rec.device_id /\ d.employee_id \in fetchFailed /\ upstream[d.employee_id] # 0)
           => \E e \in devices' : e.id = d.id /\ e.employee_id = d.employee_id]_vars

\* The outcome the orchestrator computed for its run: failed once the outer catch received
\* an error, else the status of the close payload.
ComputedOutcome ==
  IF thrown # NoMsg THEN "failed"
  ELSE IF updateData # NoUpdate THEN updateData.status
  ELSE "none"

\* C37: whenever the orchestrator's row has completed_at set, its stored status is the
\* outcome the orchestrator computed; a run in which a stage failed is never stored as
\* completed with status success.
C37_ClosedStatusIsComputedOutcome ==
  (syncId # 0 /\ Closed(sync_logs, syncId)) => sync_logs[syncId].status = ComputedOutcome

C39_CountsAddUpAtClose ==
  [][(cpc = "close" /\ cpc' = "idle") =>
       /\ taskLog'.completed_at # NoStamp
       /\ taskLog'.records_synced + taskLog'.records_failed
            = Len(azureUsers) + Cardinality(ninjaBatch)
       /\ taskLog'.status \in {"success", "partial"}
       /\ (taskLog'.status = "partial") <=> (taskLog'.records_failed > 0)]_vars

\* A Directory Sync run closed as partial: one person synced, one failed.
C39_Witness ==
  /\ cpc = "idle"
  /\ taskLog.sync_type = "entra_id" /\ taskLog.completed_at # NoStamp
  /\ taskLog.status = "partial"
  /\ taskLog.records_synced = 1 /\ taskLog.records_failed = 1

\* C40: when Directory Sync updates an existing device whose display name has no hyphen,
\* the row keeps the serial_number it had, whichever lookup found it.
C40_SerialKeptWithoutHyphen ==
  [][(/\ extractPc = "call" /\ extractPc' = "returned"
      /\ \A i \in 1..Len(extractName) : extractName[i] # "-")
       => \A r \in DirectoryMatches(devices, AzureDeviceId, extractName) :
            \E w \in devices' : w.id = r.id /\ w.serial_number = r.serial_number]_vars

====
